---- MODULE Spec2Model ----
(***************************************************************************)
(* Verification model of the g3x-flight-map core: nearest-airport          *)
(* resolution, intermediate-stop detection and label placement.            *)
(*                                                                         *)
(* Geometry.  Every modelled coordinate lies on one meridian, where the    *)
(* Haversine distance of getDistance is R * |dLat|; latitudes are counted  *)
(* in units of half a kilometre of arc, so that getDistance is |a - b|     *)
(* and "1 km" is Km(1) = 2 units.                                          *)
(***************************************************************************)
EXTENDS Integers, Sequences, FiniteSets, TLC

(***************************************************************************)
(* Bounds of the model                                                     *)
(***************************************************************************)
MaxPos == 6              \* latitudes 0..MaxPos (half-kilometres)
MaxLen == 6              \* longest track, in samples
MaxZone == 2             \* longest low/slow zone, in samples
MaxLabels == 10          \* most airport codes that get a label
MaxRelabel == 1          \* most second placements of the first airport

Lats == 0..MaxPos
QueryLats == {0}         \* finder queries; the catalog lies at distance 0..MaxPos
StopAirportLats == {1, 3, 5}     \* detector catalogs: airports 0, 1 or 2 km apart
TrackLats == {0, 3, MaxPos}      \* detector samples: beside and on airports
AirportCodes == <<"KAAA", "KBBB", "KCCC">>   \* code of the k-th catalog entry
OtherCode == "KZZZ"                          \* a code that is in no catalog
NullCode == "<null>"                         \* JavaScript null as a code
NoType == ""                                 \* airport.type missing in the CSV

NearestTypes == {"closed", "heliport", "large_airport", NoType}
StopTypes == {"heliport", "small_airport"}

VARIABLES
  airports,          \* the catalog, in Object.entries order: <<[code, lat, type]>>
  queryLat,          \* finder: the query point
  suggestedCode,     \* finder: the filename hint given to verifyAirportCode
  nearest,           \* finder: result of findNearestAirport
  verified,          \* finder: result of verifyAirportCode
  fpc,               \* finder: "idle" -> "found" -> "verified"
  aglThreshold,      \* detector: parameter aglThreshold (feet)
  speedThreshold,    \* detector: parameter speedThreshold (knots)
  data,              \* detector: data[lowSlowStartIdx .. i-1] while in a zone, the
                     \*   only rows the loop reads again; <<>> while airborne
  i,                 \* detector: index of the next sample (0-based)
  inLowSlowZone,     \* detector: local inLowSlowZone
  lowSlowStartIdx,   \* detector: local lowSlowStartIdx
  intermediateStops, \* detector: the list being built
  visitedAirports,   \* detector: the Set of recorded codes
  spc,               \* detector: "loop" | "done" (returned) | "idle"
  zonesExited,       \* history: number of low/slow zones exited so far
  removedCodes,      \* history: codes a replacement deleted from visitedAirports
  lastResolved,      \* history: code the most recent zone exit resolved to
  sample,            \* classifier: the row under test
  lowSlow,           \* classifier: its isLowAndSlow
  cpc,               \* classifier: "ready" -> "classified"
  zoom,              \* labels: map.getZoom(), in quarter steps
  existingLabels,    \* labels: the Map code -> details, in insertion order
  placements,        \* labels: number of placements made so far
  pending,           \* labels: the running adjustLabelPosition call, after
                     \*   its search and before its return
  aglField,          \* thresholds: value of the agl-threshold input
  speedField,        \* thresholds: value of the speed-threshold input
  points,            \* simplify: the argument points
  epsilon,           \* simplify: the argument epsilon
  simplified,        \* simplify: the returned array
  mpc,               \* simplify: "ready" -> "returned"
  airportsLoaded,    \* upload: global airportsLoaded
  airportsLoading,   \* upload: global airportsLoading: "null", or the state of
                     \*   the promise it holds
  catalogState,      \* upload: history: "none" | "loaded" | "failed", what
                     \*   loadAirportsData has left in airports
  hpc,               \* upload: position of the change handler
  files,             \* upload: the files of the running upload, sorted by name
  rendered,          \* upload: names passed to renderFlight, in call order
  inputDisabled,     \* upload: fileInput.disabled
  uploads,           \* upload: number of uploads started
  calls,             \* simplify: the calls of simplifyPolyline not yet entered
  entered,           \* simplify: history: number of calls entered so far
  labeledAirports,   \* map: the Map of departure and arrival labels
  intermediateStopLabels,       \* map: the Map of intermediate-stop labels
  showIntermediateStops,        \* map: checked of #show-intermediate-stops
  zoomendListeners,             \* map: the listeners of the map's zoomend
                                \*   event, in order of registration
  labelRepositioningHandler,    \* map: the global of event-handlers.js
  markerVisibilityHandlerSetup, \* map: the global of the marker module
  lastDispatch       \* map: history: the listeners the last zoomend ran

finderVars == <<queryLat, suggestedCode, nearest, verified, fpc>>
thresholdVars == <<aglThreshold, speedThreshold, aglField, speedField>>
simplifyVars == <<points, epsilon, simplified, mpc, calls, entered>>
uploadVars == <<airportsLoaded, airportsLoading, catalogState, hpc, files, rendered,
                inputDisabled, uploads>>
detectorVars == <<data, i, inLowSlowZone, lowSlowStartIdx,
                  intermediateStops, visitedAirports, spc,
                  zonesExited, removedCodes, lastResolved>>
classifyVars == <<sample, lowSlow, cpc>>
mapVars == <<labeledAirports, intermediateStopLabels, showIntermediateStops,
             zoomendListeners, labelRepositioningHandler,
             markerVisibilityHandlerSetup, lastDispatch>>
labelVars == <<zoom, existingLabels, placements, pending, mapVars>>

(***************************************************************************)
(* constants.js / utils.js                                                 *)
(***************************************************************************)
Km(n) == 2 * n

Abs(x) == IF x < 0 THEN -x ELSE x

getDistance(lat1, lat2) == Abs(lat2 - lat1)

\* the table with large airports above medium ones
PriorityWithLargeOnTop ==
  [t \in {"closed", "heliport", "seaplane_base", "small_airport",
          "medium_airport", "large_airport"} |->
     CASE t = "closed" -> -1
       [] t = "heliport" -> 0
       [] t = "seaplane_base" -> 1
       [] t = "small_airport" -> 2
       [] t = "medium_airport" -> 3
       [] t = "large_airport" -> 4]

AIRPORT_TYPE_PRIORITY ==
  [t \in {"closed", "heliport", "seaplane_base", "small_airport",
          "medium_airport", "large_airport"} |->
     CASE t = "closed" -> -1
       [] t = "heliport" -> 0
       [] t = "seaplane_base" -> 1
       [] t = "small_airport" -> 2
       [] t = "medium_airport" -> 3
       [] t = "large_airport" -> 3]

\* AIRPORT_TYPE_PRIORITY[type] || 0 : undefined and 0 both give 0
PriorityOf(type) ==
  IF type \in DOMAIN AIRPORT_TYPE_PRIORITY /\ AIRPORT_TYPE_PRIORITY[type] # 0
    THEN AIRPORT_TYPE_PRIORITY[type]
    ELSE 0

PROXIMITY_THRESHOLD_KM == 2

Infinity == 1000000      \* JavaScript Infinity: above every modelled number

(***************************************************************************)
(* airport-finder: findNearestAirport, verifyAirportCode                   *)
(***************************************************************************)
Null == [code |-> NullCode]

\* the scan's locals before the first catalog entry
ScanInit == [closest |-> Null, minDistance |-> Infinity, closeAirports |-> <<>>]

\* one iteration of  for (const [code, airport] of Object.entries(airports))
ScanStepByDistanceOnly(st, entry, lat) ==
  LET distance == getDistance(lat, entry.lat)
      closeAirports ==
        IF distance <= Km(1)
          THEN Append(st.closeAirports,
                      [code |-> entry.code, lat |-> entry.lat, type |-> entry.type,
                       distance |-> distance, priority |-> PriorityOf(entry.type)])
          ELSE st.closeAirports
  IN  IF closeAirports = <<>>
           /\ (st.closest = Null \/ distance < st.minDistance)
        THEN [closest |-> [code |-> entry.code, lat |-> entry.lat,
                           type |-> entry.type, distance |-> distance],
              minDistance |-> distance,
              closeAirports |-> closeAirports]
        ELSE [st EXCEPT !.closeAirports = closeAirports]

ScanStep(st, entry, lat) ==
  LET distance == getDistance(lat, entry.lat)
      closeAirports ==
        IF distance <= Km(1)
          THEN Append(st.closeAirports,
                      [code |-> entry.code, lat |-> entry.lat, type |-> entry.type,
                       distance |-> distance, priority |-> PriorityOf(entry.type)])
          ELSE st.closeAirports
      currentPriority == PriorityOf(entry.type)
      closestPriority == IF st.closest # Null THEN PriorityOf(st.closest.type) ELSE -1
  IN  IF closeAirports = <<>>
           /\ (\/ st.closest = Null
               \/ currentPriority > closestPriority
               \/ (currentPriority = closestPriority /\ distance < st.minDistance))
        THEN [closest |-> [code |-> entry.code, lat |-> entry.lat,
                           type |-> entry.type, distance |-> distance],
              minDistance |-> distance,
              closeAirports |-> closeAirports]
        ELSE [st EXCEPT !.closeAirports = closeAirports]

RECURSIVE ScanAirports(_, _, _)
ScanAirports(catalog, k, lat) ==
  IF k = 0 THEN ScanInit
  ELSE ScanStep(ScanAirports(catalog, k - 1, lat), catalog[k], lat)

\* the comparator of closeAirports.sort
CompareClose(a, b) ==
  LET priorityDiff == b.priority - a.priority
  IN  IF priorityDiff # 0 THEN priorityDiff ELSE a.distance - b.distance

\* Array.prototype.sort is stable: x goes before the first element it precedes
RECURSIVE InsertSorted(_, _)
InsertSorted(sorted, x) ==
  IF sorted = <<>> THEN <<x>>
  ELSE IF CompareClose(x, Head(sorted)) < 0 THEN <<x>> \o sorted
  ELSE <<Head(sorted)>> \o InsertSorted(Tail(sorted), x)

RECURSIVE SortClose(_)
SortClose(s) ==
  IF s = <<>> THEN <<>>
  ELSE InsertSorted(SortClose(SubSeq(s, 1, Len(s) - 1)), s[Len(s)])

\* if (closeAirports.length > 0) { sort; closest = closeAirports[0] }
SelectClosestIgnoringPool(st) == st.closest

SelectClosest(st) ==
  IF Len(st.closeAirports) > 0
    THEN SortClose(st.closeAirports)[1]
    ELSE st.closest

\* a search-radius cap, as some variants of the finder had
FindNearestCapped(catalog, lat) ==
  LET closest == SelectClosest(ScanAirports(catalog, Len(catalog), lat))
  IN  IF closest # Null /\ closest.distance > Km(1) THEN Null ELSE closest

FindNearestIn(catalog, lat) ==
  SelectClosest(ScanAirports(catalog, Len(catalog), lat))

findNearestAirport(lat) == FindNearestIn(airports, lat)

VerifyTrustingHint(code, lat) ==
  LET found == findNearestAirport(lat)
  IN  IF found = Null THEN NullCode
      ELSE IF code # NullCode THEN code
      ELSE found.code

verifyAirportCode(code, lat) ==
  LET found == findNearestAirport(lat)
  IN  IF found = Null THEN NullCode
      ELSE IF code # NullCode /\ code = found.code THEN code
      ELSE found.code

(***************************************************************************)
(* intermediate-stops: detectIntermediateStops                             *)
(***************************************************************************)
\* a CSV field after Papa.parse: a number, null (present but empty), or
\* undefined (the row has no such field)
Undefined == [js |-> "undefined"]
JsNull == [js |-> "null"]
Num(n) == [js |-> "number", value |-> n]

\* row.AGL !== undefined ? row.AGL : Infinity
OrInfinity(field) == IF field # Undefined THEN field ELSE Num(Infinity)

\* ToNumber of the left operand of <= : null is 0
ToNumber(v) == IF v = JsNull THEN 0 ELSE v.value

isLowAndSlow(row, aglT, speedT) ==
  LET agl == OrInfinity(row.AGL)
      groundSpeed == OrInfinity(row.GndSpd)
  IN  (ToNumber(agl) <= aglT) \/ (ToNumber(groundSpeed) <= speedT)

\* airports[code]
CatalogEntry(code) ==
  LET k == CHOOSE k \in 1..Len(airports) : airports[k].code = code
  IN  airports[k]

Min(S) == CHOOSE x \in S : \A y \in S : x <= y

\* the index (1-based) at which the loop over intermediateStops breaks:
\* the first stop whose airport is less than PROXIMITY_THRESHOLD_KM from
\* the new one; 0 when the loop runs to its end
FirstNearbyStop(stops, found) ==
  LET J == {j \in 1..Len(stops) :
              getDistance(found.lat, stops[j].airportLat) < Km(PROXIMITY_THRESHOLD_KM)}
  IN  IF J = {} THEN 0 ELSE Min(J)

\* the branch taken for that stop: TRUE to replace it (replaceIdx = j),
\* FALSE to keep it; shouldAdd is false either way
ReplacesExisting(existingStop, found, midLat) ==
  LET existingAirportData == CatalogEntry(existingStop.airport)
      existingPriority == PriorityOf(existingAirportData.type)
      newPriority == PriorityOf(found.type)
  IN  IF newPriority > existingPriority THEN TRUE
      ELSE IF newPriority = existingPriority
        THEN LET existingDistance == getDistance(midLat, existingStop.airportLat)
                 newDistance == getDistance(midLat, found.lat)
             IN  newDistance < existingDistance
      ELSE FALSE

\* the stop object; zone and slot are history fields: the number of the zone
\* whose midpoint it records, and of the zone that appended its list position
NewStop(found, midLat, zone) ==
  [airport |-> found.code, lat |-> midLat, airportLat |-> found.lat,
   zone |-> zone, slot |-> zone]

\* intermediateStops[replaceIdx] = {...}
ReplaceByRemoveAndPush(stops, replaceIdx, stop) ==
  SubSeq(stops, 1, replaceIdx - 1) \o SubSeq(stops, replaceIdx + 1, Len(stops))
    \o <<[stop EXCEPT !.slot = stops[replaceIdx].slot]>>

ReplaceStop(stops, replaceIdx, stop) ==
  [stops EXCEPT ![replaceIdx] = [stop EXCEPT !.slot = stops[replaceIdx].slot]]

\* the body of  if (nearest && !visitedAirports.has(nearest.code)) {...}
\* with its guard: the list and the set after a zone exit resolved to found
RecordStopNoDedup(stops, visited, found, midLat, zone) ==
  IF found = Null
    THEN [stops |-> stops, visited |-> visited, removed |-> {}]
    ELSE [stops |-> Append(stops, NewStop(found, midLat, zone)),
          visited |-> visited \cup {found.code}, removed |-> {}]

RecordStop(stops, visited, found, midLat, zone) ==
  IF found = Null \/ found.code \in visited
    THEN [stops |-> stops, visited |-> visited, removed |-> {}]
    ELSE LET j == FirstNearbyStop(stops, found)
         IN  IF j = 0
               THEN [stops |-> Append(stops, NewStop(found, midLat, zone)),
                     visited |-> visited \cup {found.code}, removed |-> {}]
             ELSE IF ReplacesExisting(stops[j], found, midLat)
               THEN [stops |-> ReplaceStop(stops, j, NewStop(found, midLat, zone)),
                     visited |-> (visited \ {stops[j].airport}) \cup {found.code},
                     removed |-> {stops[j].airport}]
             ELSE [stops |-> stops, visited |-> visited, removed |-> {}]

\* data[Math.floor((lowSlowStartIdx + i) / 2)].Latitude, read in the window
MidLat ==
  LET midIdx == (lowSlowStartIdx + i) \div 2
  IN  data[midIdx - lowSlowStartIdx + 1].Latitude

(***************************************************************************)
(* Catalogs: the k-th entry carries the k-th code, so codes are unique     *)
(***************************************************************************)
CatalogsOf(lats, types, n) ==
  { [k \in 1..n |-> [code |-> AirportCodes[k], lat |-> f[k][1], type |-> f[k][2]]] :
      f \in [1..n -> lats \X types] }

Catalogs(lats, types) == UNION { CatalogsOf(lats, types, n) : n \in 0..Len(AirportCodes) }

\* filename hints: the code of the second catalog entry (in the catalog when
\* it has two entries), a code of no catalog, and no hint
SuggestedCodes == {AirportCodes[2], OtherCode, NullCode}

(***************************************************************************)
(* Idle values of the components a specification does not run             *)
(***************************************************************************)
DefaultThreshold == 20

TrackRows ==
  { [Latitude |-> lat, AGL |-> Num(agl), GndSpd |-> Undefined] :
      lat \in TrackLats, agl \in {10, 30} }

\* the value of an input element that nobody has typed into
\* the value of an input element left empty: no character
NoText == [text |-> <<>>]

ThresholdFieldsIdle ==
  /\ aglField = NoText
  /\ speedField = NoText

ThresholdsDefault ==
  /\ aglThreshold = DefaultThreshold
  /\ speedThreshold = DefaultThreshold
  /\ ThresholdFieldsIdle

SimplifyIdle ==
  /\ points = <<>>
  /\ epsilon = 0
  /\ simplified = <<>>
  /\ mpc = "idle"
  /\ calls = <<>>
  /\ entered = 0

UploadIdle ==
  /\ airportsLoaded = FALSE
  /\ airportsLoading = "null"
  /\ catalogState = "none"
  /\ hpc = "off"
  /\ files = <<>>
  /\ rendered = <<>>
  /\ inputDisabled = FALSE
  /\ uploads = 0

DetectorIdle ==
  /\ data = <<>>
  /\ i = 0
  /\ inLowSlowZone = FALSE
  /\ lowSlowStartIdx = -1
  /\ intermediateStops = <<>>
  /\ visitedAirports = {}
  /\ spc = "idle"
  /\ zonesExited = 0
  /\ removedCodes = {}
  /\ lastResolved = NullCode

ClassifierIdle ==
  /\ sample = [Latitude |-> 0, AGL |-> Undefined, GndSpd |-> Undefined]
  /\ lowSlow = FALSE
  /\ cpc = "idle"

\* labelRepositioningHandler = null; a listener is [fn, upload, replaced]:
\* the function and, for a closure made by the upload handler, the number
\* of the upload that made it and, as history, of the upload whose closure
\* it replaced
NoHandler == [fn |-> "null", upload |-> 0, replaced |-> 0]

MapIdle ==
  /\ labeledAirports = <<>>
  /\ intermediateStopLabels = <<>>
  /\ showIntermediateStops = FALSE
  /\ zoomendListeners = <<>>
  /\ labelRepositioningHandler = NoHandler
  /\ markerVisibilityHandlerSetup = FALSE
  /\ lastDispatch = <<>>

LabelsIdle ==
  /\ zoom = 0
  /\ existingLabels = << >>
  /\ placements = 0
  /\ pending = [call |-> "none"]
  /\ MapIdle

FinderIdle ==
  /\ queryLat = 0
  /\ suggestedCode = NullCode
  /\ nearest = Null
  /\ verified = NullCode
  /\ fpc = "off"

(***************************************************************************)
(* SpecNearest: one query against one catalog                              *)
(***************************************************************************)
InitNearest ==
  /\ airports \in Catalogs(Lats, NearestTypes)
  /\ queryLat \in QueryLats
  /\ suggestedCode = NullCode
  /\ nearest = Null
  /\ verified = NullCode
  /\ fpc = "idle"
  /\ ThresholdsDefault
  /\ DetectorIdle
  /\ ClassifierIdle
  /\ SimplifyIdle
  /\ UploadIdle
  /\ LabelsIdle

FindNearest ==
  /\ fpc = "idle"
  /\ nearest' = findNearestAirport(queryLat)
  /\ fpc' = "found"
  /\ UNCHANGED <<airports, queryLat, suggestedCode, verified,
                 thresholdVars, simplifyVars, uploadVars, detectorVars, classifyVars, labelVars>>

VerifyCode ==
  /\ fpc = "found"
  /\ \E code \in SuggestedCodes :
       /\ suggestedCode' = code
       /\ verified' = verifyAirportCode(code, queryLat)
  /\ fpc' = "verified"
  /\ UNCHANGED <<airports, queryLat, nearest,
                 thresholdVars, simplifyVars, uploadVars, detectorVars, classifyVars, labelVars>>

NextNearest == FindNearest \/ VerifyCode

vars == <<airports, finderVars, thresholdVars, simplifyVars, uploadVars, detectorVars, classifyVars, labelVars>>

SpecNearest == InitNearest /\ [][NextNearest]_vars

(***************************************************************************)
(* Spec: detectIntermediateStops over every track of at most MaxLen        *)
(* samples; each action is one iteration of the for loop on the next row   *)
(***************************************************************************)
Init ==
  /\ airports \in Catalogs(StopAirportLats, StopTypes)
  /\ FinderIdle
  /\ ClassifierIdle
  /\ SimplifyIdle
  /\ UploadIdle
  /\ LabelsIdle
  /\ ThresholdsDefault
  /\ data = <<>>
  /\ i = 0
  /\ inLowSlowZone = FALSE
  /\ lowSlowStartIdx = -1
  /\ intermediateStops = <<>>
  /\ visitedAirports = {}
  /\ spc = "loop"
  /\ zonesExited = 0
  /\ removedCodes = {}
  /\ lastResolved = NullCode

LoopFrame == <<airports, finderVars, thresholdVars, simplifyVars, uploadVars, classifyVars, labelVars, spc>>

\* isLowAndSlow && !inLowSlowZone
EnterZone ==
  /\ spc = "loop" /\ i < MaxLen
  /\ \E row \in TrackRows :
       /\ isLowAndSlow(row, aglThreshold, speedThreshold) /\ ~inLowSlowZone
       /\ data' = <<row>>
  /\ inLowSlowZone' = TRUE
  /\ lowSlowStartIdx' = i
  /\ i' = i + 1
  /\ UNCHANGED <<LoopFrame, intermediateStops, visitedAirports,
                 zonesExited, removedCodes, lastResolved>>

\* isLowAndSlow && inLowSlowZone: neither branch
StayInZone ==
  /\ spc = "loop" /\ i < MaxLen /\ Len(data) < MaxZone
  /\ \E row \in TrackRows :
       /\ isLowAndSlow(row, aglThreshold, speedThreshold) /\ inLowSlowZone
       /\ data' = Append(data, row)
  /\ i' = i + 1
  /\ UNCHANGED <<LoopFrame, inLowSlowZone, lowSlowStartIdx, intermediateStops,
                 visitedAirports, zonesExited, removedCodes, lastResolved>>

\* !isLowAndSlow && !inLowSlowZone: neither branch
StayAirborne ==
  /\ spc = "loop" /\ i < MaxLen
  /\ \E row \in TrackRows :
       ~isLowAndSlow(row, aglThreshold, speedThreshold) /\ ~inLowSlowZone
  /\ i' = i + 1
  /\ UNCHANGED <<LoopFrame, data, inLowSlowZone, lowSlowStartIdx, intermediateStops,
                 visitedAirports, zonesExited, removedCodes, lastResolved>>

\* !isLowAndSlow && inLowSlowZone
ExitZone ==
  /\ spc = "loop" /\ i < MaxLen
  /\ \E row \in TrackRows :
       ~isLowAndSlow(row, aglThreshold, speedThreshold) /\ inLowSlowZone
  /\ inLowSlowZone' = FALSE
  /\ LET found == findNearestAirport(MidLat)
         after == RecordStop(intermediateStops, visitedAirports, found, MidLat,
                             zonesExited + 1)
     IN  /\ intermediateStops' = after.stops
         /\ visitedAirports' = after.visited
         /\ removedCodes' = removedCodes \cup after.removed
         /\ lastResolved' = found.code
  /\ zonesExited' = zonesExited + 1
  /\ data' = <<>>
  /\ i' = i + 1
  /\ UNCHANGED <<LoopFrame, lowSlowStartIdx>>

\* i === data.length: return intermediateStops
ReturnRecordingOpenZone ==
  /\ spc = "loop"
  /\ spc' = "done"
  /\ intermediateStops' =
       IF inLowSlowZone /\ airports # <<>>
         THEN Append(intermediateStops,
                     NewStop(findNearestAirport(data[1].Latitude), data[1].Latitude,
                             zonesExited + 1))
         ELSE intermediateStops
  /\ UNCHANGED <<airports, finderVars, thresholdVars, simplifyVars, uploadVars, classifyVars, labelVars, data, i,
                 inLowSlowZone, lowSlowStartIdx, visitedAirports,
                 zonesExited, removedCodes, lastResolved>>

Return ==
  /\ spc = "loop"
  /\ spc' = "done"
  /\ UNCHANGED <<airports, finderVars, thresholdVars, simplifyVars, uploadVars, classifyVars, labelVars, data, i,
                 inLowSlowZone, lowSlowStartIdx, intermediateStops, visitedAirports,
                 zonesExited, removedCodes, lastResolved>>

Next == EnterZone \/ StayInZone \/ StayAirborne \/ ExitZone \/ Return

Spec == Init /\ [][Next]_vars

(***************************************************************************)
(* SpecClassify: the low-and-slow test of one row under one pair of        *)
(* thresholds                                                              *)
(***************************************************************************)
FieldValues == {Undefined, JsNull, Num(0), Num(10), Num(20), Num(30)}
Thresholds == {0, DefaultThreshold}

InitClassify ==
  /\ airports = <<>>
  /\ FinderIdle
  /\ DetectorIdle
  /\ LabelsIdle
  /\ SimplifyIdle
  /\ UploadIdle
  /\ ThresholdFieldsIdle
  /\ aglThreshold \in Thresholds
  /\ speedThreshold \in Thresholds
  /\ sample \in [Latitude : {0}, AGL : FieldValues, GndSpd : FieldValues]
  /\ lowSlow = FALSE
  /\ cpc = "ready"

ClassifySample ==
  /\ cpc = "ready"
  /\ lowSlow' = isLowAndSlow(sample, aglThreshold, speedThreshold)
  /\ cpc' = "classified"
  /\ UNCHANGED <<airports, finderVars, thresholdVars, simplifyVars, uploadVars, detectorVars, labelVars, sample>>

NextClassify == ClassifySample

SpecClassify == InitClassify /\ [][NextClassify]_vars

\* a missing field (undefined or empty) read as +infinity
MissingAsInfinity(field) ==
  IF field \in {Undefined, JsNull} THEN Infinity ELSE field.value

\* C8 (as claimed): a sample is low-and-slow iff its AGL is <= aglThreshold
\* or its ground speed is <= speedThreshold, a field that is absent or
\* present but empty counting as +infinity.
C8_Claim ==
  cpc = "classified" =>
     (lowSlow <=> (\/ MissingAsInfinity(sample.AGL) <= aglThreshold
                   \/ MissingAsInfinity(sample.GndSpd) <= speedThreshold))

(***************************************************************************)
(* Claims about the stop detector                                          *)
(***************************************************************************)
StopCodes(stops) == {stops[j].airport : j \in 1..Len(stops)}

\* C2: the list never holds two stops with the same airport code, after
\* every processed sample, also once a replacement has removed a code from
\* the visited set and a later zone resolves to that code again.
C2_NoDuplicateCodes ==
  \A j, k \in 1..Len(intermediateStops) :
     j # k => intermediateStops[j].airport # intermediateStops[k].airport

C2_Witness ==
  /\ lastResolved \in removedCodes
  /\ Len(intermediateStops) >= 1
  /\ zonesExited >= 3

\* the stop the tie-break rule keeps of an earlier stop e and a new airport
PreferredCode(e, found, midLat) ==
  LET ePriority == PriorityOf(CatalogEntry(e.airport).type)
      newPriority == PriorityOf(found.type)
  IN  IF newPriority > ePriority THEN found.code
      ELSE IF newPriority < ePriority THEN e.airport
      ELSE IF getDistance(midLat, found.lat) < getDistance(midLat, e.airportLat)
        THEN found.code
      ELSE e.airport

\* C3 (as claimed): when a zone exit resolves to an airport less than
\* PROXIMITY_THRESHOLD_KM from the airport of an earlier zone's stop, the
\* list afterwards holds exactly one of the two: the one with the higher
\* priority, else the one closer to the later zone's midpoint, else the
\* earlier one.
C3_Claim ==
  [][ (spc = "loop" /\ inLowSlowZone /\ ~inLowSlowZone') =>
        LET found == findNearestAirport(MidLat)
        IN  found # Null =>
              \A j \in 1..Len(intermediateStops) :
                 LET e == intermediateStops[j]
                 IN  (/\ e.airport # found.code
                      /\ getDistance(e.airportLat, found.lat) < Km(PROXIMITY_THRESHOLD_KM))
                     => StopCodes(intermediateStops') \cap {e.airport, found.code}
                          = {PreferredCode(e, found, MidLat)} ]_vars

\* C9: stops are recorded at zone exits only: the list is never longer than
\* the number of zones exited, every stop records an exited zone, and a
\* track that ends inside a zone has no stop for that zone.
C9_StopsOnlyAtExits ==
  /\ Len(intermediateStops) <= zonesExited
  /\ \A j \in 1..Len(intermediateStops) : intermediateStops[j].zone \in 1..zonesExited

C9_Witness ==
  /\ spc = "done"
  /\ inLowSlowZone
  /\ zonesExited >= 1
  /\ Len(intermediateStops) = zonesExited

\* C10 (as claimed): the list is ordered by the exit order of the zones
\* whose midpoints the stops record.
C10_Claim ==
  \A j, k \in 1..Len(intermediateStops) :
     j < k => intermediateStops[j].zone < intermediateStops[k].zone

\* C10 (amended): the list is ordered by the exit order of the zones that
\* appended its positions; a replacement leaves the new stop, with the
\* later zone's midpoint, at the position of the stop it replaces.
C10_OrderedBySlot ==
  /\ \A j, k \in 1..Len(intermediateStops) :
        j < k => intermediateStops[j].slot < intermediateStops[k].slot
  /\ \A j \in 1..Len(intermediateStops) :
        intermediateStops[j].slot <= intermediateStops[j].zone

C10_Witness ==
  \E j, k \in 1..Len(intermediateStops) :
     /\ j < k
     /\ intermediateStops[j].zone > intermediateStops[k].zone
     /\ intermediateStops[j].slot < intermediateStops[k].slot

(***************************************************************************)
(* Claims about the finder                                                 *)
(***************************************************************************)
Entries == {airports[k] : k \in 1..Len(airports)}
DistanceTo(a) == getDistance(queryLat, a.lat)
ClosePool == {a \in Entries : DistanceTo(a) <= Km(1)}

\* a is at least as good as b under the priority-then-distance rule
AtLeastAsGood(a, b) ==
  \/ PriorityOf(a.type) > PriorityOf(b.type)
  \/ PriorityOf(a.type) = PriorityOf(b.type) /\ DistanceTo(a) <= DistanceTo(b)

\* the catalog in another iteration order
IterationOrders == { p \in [1..Len(airports) -> 1..Len(airports)] :
                    \A j, k \in 1..Len(airports) : j # k => p[j] # p[k] }
Reordered(p) == [k \in 1..Len(airports) |-> airports[p[k]]]

\* C4: when some airport lies within 1 km, the result is the best airport of
\* the close pool (highest priority, then smallest distance), in every
\* iteration order of the catalog; no farther airport is returned.
C4_ClosePoolWins ==
  (fpc # "idle" /\ ClosePool # {}) =>
     /\ nearest # Null
     /\ \E a \in ClosePool : a.code = nearest.code /\ nearest.distance = DistanceTo(a)
     /\ nearest.distance <= Km(1)
     /\ \A b \in ClosePool : AtLeastAsGood(nearest, b)
     /\ fpc = "found" =>
          \A p \in IterationOrders :
             LET r == FindNearestIn(Reordered(p), queryLat)
             IN  /\ r.distance <= Km(1)
                 /\ PriorityOf(r.type) = PriorityOf(nearest.type)
                 /\ r.distance = nearest.distance

C4_Witness ==
  /\ fpc = "found"
  /\ ClosePool # {}
  /\ \E far \in Entries \ ClosePool : PriorityOf(far.type) > PriorityOf(nearest.type)
  /\ \E b \in ClosePool : b.code # nearest.code /\ PriorityOf(b.type) < PriorityOf(nearest.type)
                             /\ DistanceTo(b) < nearest.distance

\* C5: when no airport lies within 1 km, the result is the best airport of
\* the whole catalog under the priority-then-distance rule, and another
\* iteration order changes the result only between airports that tie in
\* both priority and distance.
C5_GeneralScanBest ==
  (fpc # "idle" /\ ClosePool = {} /\ airports # <<>>) =>
     /\ \E a \in Entries : a.code = nearest.code /\ nearest.distance = DistanceTo(a)
     /\ \A b \in Entries : AtLeastAsGood(nearest, b)
     /\ fpc = "found" =>
          \A p \in IterationOrders :
             LET r == FindNearestIn(Reordered(p), queryLat)
             IN  \/ r.code = nearest.code
                 \/ /\ PriorityOf(r.type) = PriorityOf(nearest.type)
                    /\ r.distance = nearest.distance

C5_Witness ==
  /\ fpc = "found"
  /\ ClosePool = {}
  /\ Len(airports) = 3
  /\ nearest.code = AirportCodes[3]
  /\ \E b \in Entries : DistanceTo(b) < nearest.distance
  /\ \E b \in Entries : b.code # nearest.code /\ PriorityOf(b.type) = PriorityOf(nearest.type)
                           /\ DistanceTo(b) > nearest.distance

\* C6: findNearestAirport returns null exactly when the catalog is empty.
C6_NullIffEmpty ==
  fpc # "idle" => (nearest = Null <=> airports = <<>>)

C6_Witness ==
  /\ fpc = "found"
  /\ airports # <<>>
  /\ nearest # Null
  /\ nearest.distance = MaxPos
  /\ PriorityOf(nearest.type) = -1

BASE_MIN_LABEL_DISTANCE == 50
BASE_LABEL_MARGIN == 20
MAX_PIXEL_DISTANCE == 100
MIN_ZOOM == 4
MAX_ZOOM == 12
minOffset == 20
maxAttempts == 32

Px(n) == 10 * n

Max2(a, b) == IF a >= b THEN a ELSE b

\* zoomSnap and zoomDelta are 0.25: a zoom level is counted in quarter
\* steps, ZoomSteps to the level
ZoomSteps == 4

\* zoomFactor, times 10 * ZoomSteps * (MAX_ZOOM - MIN_ZOOM); Math.max(0.3, ...)
zoomFactor(z) ==
  Max2(3 * ZoomSteps * (MAX_ZOOM - MIN_ZOOM), 10 * (z - ZoomSteps * MIN_ZOOM))

\* base * (1 - zoomFactor * 0.7), in tenths of a pixel
ZoomAdjusted(base, z) ==
  (Px(base) * (100 * ZoomSteps * (MAX_ZOOM - MIN_ZOOM) - 7 * zoomFactor(z)))
     \div (100 * ZoomSteps * (MAX_ZOOM - MIN_ZOOM))

getZoomAdjustedValues(z) ==
  [labelDistance |-> ZoomAdjusted(BASE_MIN_LABEL_DISTANCE, z),
   labelMargin   |-> ZoomAdjusted(BASE_LABEL_MARGIN, z)]

\* Math.cos and Math.sin of k * PI/4, times TrigScale
TrigScale == 10000
Cos8 == <<10000, 7071, 0, -7071, -10000, -7071, 0, 7071>>
Sin8 == <<0, 7071, 10000, 7071, 0, -7071, -10000, -7071>>

RoundDiv(n, d) == IF n >= 0 THEN (2 * n + d) \div (2 * d)
                            ELSE -((2 * (-n) + d) \div (2 * d))

\* L.point(radius * Math.cos(angle), radius * Math.sin(angle)), angle = k * PI/4
Offset(radius, k) ==
  <<RoundDiv(radius * Cos8[(k % 8) + 1], TrigScale),
    RoundDiv(radius * Sin8[(k % 8) + 1], TrigScale)>>

Add(p, q) == <<p[1] + q[1], p[2] + q[2]>>

Dist2(p, q) == (p[1] - q[1]) * (p[1] - q[1]) + (p[2] - q[2]) * (p[2] - q[2])

\* p.distanceTo(q) < d
CloserThan(p, q, d) == d > 0 /\ Dist2(p, q) < d * d

\* p.distanceTo(q) > d
FartherThan(p, q, d) == d < 0 \/ Dist2(p, q) > d * d

PixelOrigin == <<Px(256), Px(128)>>

latLngToContainerPoint(latlng) ==
  <<latlng[1] - PixelOrigin[1], latlng[2] - PixelOrigin[2]>>

containerPointToLatLng(p) == Add(p, PixelOrigin)

\* the inner loop over existingLabels, tested against the last entry only
hasOverlapWithLast(airport, testPoint, labels, labelDistance) ==
  /\ Len(labels) > 0
  /\ labels[Len(labels)].code # airport
  /\ CloserThan(testPoint,
                latLngToContainerPoint(labels[Len(labels)].labelPosition),
                labelDistance)

\* the inner loop over existingLabels: some other code's label is too close
hasOverlap(airport, testPoint, labels, labelDistance) ==
  \E j \in 1..Len(labels) :
     /\ labels[j].code # airport
     /\ CloserThan(testPoint,
                   latLngToContainerPoint(labels[j].labelPosition),
                   labelDistance)

\* the preferred positions with right and above exchanged
positionsRightFirst == <<0, 6, 4, 2, 1, 7, 3, 5>>

\* the preferred positions, as multiples of PI/4: above, below, left, right,
\* top-right, bottom-right, top-left, bottom-left
positions == <<2, 6, 4, 0, 1, 7, 3, 5>>

PreferredPoint(point, n) == Add(point, Offset(Px(minOffset), positions[n]))

\* no candidate was accepted; tests counts the candidates that went through
\* the overlap loop
NotFound(tests) == [found |-> FALSE, tests |-> tests]

\* the loop over the preferred positions, from the n-th on
RECURSIVE TryPreferred(_, _, _, _, _)
TryPreferred(airport, point, labels, labelDistance, n) ==
  LET testPoint == PreferredPoint(point, n)
  IN  IF n > Len(positions) THEN NotFound(n - 1)
      ELSE IF ~hasOverlap(airport, testPoint, labels, labelDistance)
        THEN [found |-> TRUE, testPoint |-> testPoint, tests |-> n]
      ELSE TryPreferred(airport, point, labels, labelDistance, n + 1)

\* the spiral loop with the radius grown at every iteration
RECURSIVE SpiralSearchGrowingEachStep(_, _, _, _, _, _, _)
SpiralSearchGrowingEachStep(airport, point, labels, values, attempt, k, radius) ==
  LET testPoint == Add(point, Offset(radius, k))
  IN  IF attempt >= maxAttempts THEN NotFound(attempt)
      ELSE IF FartherThan(testPoint, point, Px(MAX_PIXEL_DISTANCE))
        THEN NotFound(attempt)
      ELSE IF ~hasOverlap(airport, testPoint, labels, values.labelDistance)
        THEN [found |-> TRUE, testPoint |-> testPoint, tests |-> attempt + 1]
      ELSE SpiralSearchGrowingEachStep(airport, point, labels, values,
                                       attempt + 1, (k + 1) % 8,
                                       radius + values.labelMargin)

\* the spiral loop from iteration attempt on, at angle k * PI/4 and radius
RECURSIVE SpiralSearch(_, _, _, _, _, _, _)
SpiralSearch(airport, point, labels, values, attempt, k, radius) ==
  LET testPoint == Add(point, Offset(radius, k))
  IN  IF attempt >= maxAttempts THEN NotFound(attempt)
      ELSE IF FartherThan(testPoint, point, Px(MAX_PIXEL_DISTANCE))
        THEN NotFound(attempt)
      ELSE IF ~hasOverlap(airport, testPoint, labels, values.labelDistance)
        THEN [found |-> TRUE, testPoint |-> testPoint, tests |-> attempt + 1]
      ELSE IF k + 1 >= 8
        THEN SpiralSearch(airport, point, labels, values, attempt + 1,
                          0, radius + values.labelMargin)
        ELSE SpiralSearch(airport, point, labels, values, attempt + 1,
                          k + 1, radius)

\* adjustLabelPosition up to its return: the container point found by the
\* preferred positions or by the spiral, or neither
SearchPosition(airport, position, labels, z) ==
  LET values == getZoomAdjustedValues(z)
      point == latLngToContainerPoint(position)
      preferred == TryPreferred(airport, point, labels, values.labelDistance, 1)
      spiral == SpiralSearch(airport, point, labels, values, 0, 0, Px(minOffset))
  IN  IF preferred.found
        THEN [via |-> "preferred", testPoint |-> preferred.testPoint,
              ringTests |-> preferred.tests, spiralTests |-> 0]
      ELSE IF spiral.found
        THEN [via |-> "spiral", testPoint |-> spiral.testPoint,
              ringTests |-> preferred.tests, spiralTests |-> spiral.tests]
      ELSE [via |-> "forced",
            ringTests |-> preferred.tests, spiralTests |-> spiral.tests]

\* the forced fallback at the minimum offset
ReturnedPositionNearMarker(position, search, fallbackAngle) ==
  IF search.via = "forced"
    THEN containerPointToLatLng(
           Add(latLngToContainerPoint(position),
               Offset(Px(minOffset), fallbackAngle)))
    ELSE containerPointToLatLng(search.testPoint)

\* the three returns of adjustLabelPosition; fallbackAngle stands for
\* Math.random() * 2 * PI, as a multiple of PI/4
ReturnedPosition(position, search, fallbackAngle) ==
  IF search.via = "forced"
    THEN containerPointToLatLng(
           Add(latLngToContainerPoint(position),
               Offset(Px(MAX_PIXEL_DISTANCE), fallbackAngle)))
    ELSE containerPointToLatLng(search.testPoint)

\* labeledAirports.set(code, details): a new key is appended, an existing
\* key keeps its place
MapSet(labels, details) ==
  IF \E j \in 1..Len(labels) : labels[j].code = details.code
    THEN [j \in 1..Len(labels) |->
            IF labels[j].code = details.code THEN details ELSE labels[j]]
    ELSE Append(labels, details)

(***************************************************************************)
(* SpecLabel: labels are created one after the other at one zoom, each     *)
(* stored in the map before the next is placed                             *)
(***************************************************************************)
ZoomLevels == {ZoomSteps * MIN_ZOOM, ZoomSteps * ((MIN_ZOOM + MAX_ZOOM) \div 2)}

\* marker positions: two airports a few pixels apart on the screen
AnchorPoints == {<<0, 0>>, <<Px(30), Px(10)>>}

FallbackAngles == {1, 4}

NoCall == [call |-> "none"]

InitLabel ==
  /\ airports = <<>>
  /\ FinderIdle
  /\ ThresholdsDefault
  /\ DetectorIdle
  /\ ClassifierIdle
  /\ SimplifyIdle
  /\ UploadIdle
  /\ zoom \in ZoomLevels
  /\ existingLabels = <<>>
  /\ placements = 0
  /\ pending = NoCall
  /\ MapIdle

LabelFrame == <<airports, finderVars, thresholdVars, simplifyVars, uploadVars, detectorVars,
                classifyVars, zoom, mapVars>>

\* the next placement: a new airport (codes are numbered in the order in
\* which they get their first label) at one of the marker positions; or,
\* closing the run, the first airport once more at its own marker position
\* (its entry in the map is the one the loops skip)
NextPlacements ==
  { [airport |-> Len(existingLabels) + 1,
     position |-> containerPointToLatLng(point)] :
       point \in { p \in AnchorPoints : /\ Len(existingLabels) < MaxLabels
                                        /\ placements = Len(existingLabels) } }
  \cup
  { [airport |-> existingLabels[j].code,
     position |-> existingLabels[j].position] :
       j \in { k \in {1} : /\ Len(existingLabels) >= 1
                           /\ placements - Len(existingLabels) < MaxRelabel } }

\* createAirportLabel(airport, position, color, existingLabels) entered and
\* adjustLabelPosition run up to its return statement
SearchLabelPosition ==
  /\ pending = NoCall
  /\ \E next \in NextPlacements :
        pending' = [call |-> "adjustLabelPosition",
                    airport |-> next.airport,
                    position |-> next.position,
                    search |-> SearchPosition(next.airport, next.position,
                                              existingLabels, zoom)]
  /\ UNCHANGED <<LabelFrame, existingLabels, placements>>

\* adjustedPosition.lat !== position.lat || adjustedPosition.lng !== position.lng
WasMoved(adjustedPosition, position) ==
  adjustedPosition[1] # position[1] \/ adjustedPosition[2] # position[2]

\* createAirportLabel returns the details built from the position that
\* adjustLabelPosition returned, and the caller stores them with
\* set(airport, details)
StoreLabel(fallbackAngle) ==
  /\ existingLabels' =
       MapSet(existingLabels,
              [code |-> pending.airport,
               position |-> pending.position,
               labelPosition |-> ReturnedPosition(pending.position,
                                                  pending.search, fallbackAngle),
               connector |-> WasMoved(ReturnedPosition(pending.position,
                                                       pending.search,
                                                       fallbackAngle),
                                      pending.position),
               via |-> pending.search.via,
               seq |-> placements + 1])
  /\ placements' = placements + 1
  /\ pending' = NoCall
  /\ UNCHANGED LabelFrame

\* return newPos of the loop over the preferred positions
ReturnPreferred ==
  /\ pending # NoCall
  /\ pending.search.via = "preferred"
  /\ StoreLabel(0)

\* return newPos of the spiral loop
ReturnSpiral ==
  /\ pending # NoCall
  /\ pending.search.via = "spiral"
  /\ StoreLabel(0)

\* the fallback return at MAX_PIXEL_DISTANCE and a random angle
ReturnForced ==
  /\ pending # NoCall
  /\ pending.search.via = "forced"
  /\ \E fallbackAngle \in FallbackAngles : StoreLabel(fallbackAngle)

NextLabel == SearchLabelPosition \/ ReturnPreferred \/ ReturnSpiral \/ ReturnForced

SpecLabel == InitLabel /\ [][NextLabel]_vars

RECURSIVE DetectLoop(_, _, _, _, _)
DetectLoop(rows, aglT, speedT, k, st) ==
  IF k >= Len(rows) THEN st.stops
  ELSE
    LET low == isLowAndSlow(rows[k + 1], aglT, speedT)
    IN  IF low /\ ~st.inZone
          THEN DetectLoop(rows, aglT, speedT, k + 1,
                          [st EXCEPT !.inZone = TRUE, !.startIdx = k])
        ELSE IF ~low /\ st.inZone
          THEN LET midLat == rows[((st.startIdx + k) \div 2) + 1].Latitude
                   found == findNearestAirport(midLat)
                   after == RecordStop(st.stops, st.visited, found, midLat,
                                       st.exited + 1)
               IN  DetectLoop(rows, aglT, speedT, k + 1,
                              [st EXCEPT !.inZone = FALSE,
                                         !.stops = after.stops,
                                         !.visited = after.visited,
                                         !.exited = st.exited + 1])
        ELSE DetectLoop(rows, aglT, speedT, k + 1, st)

\* the function with visitedAirports kept from one call to the next
detectWithSharedVisited(rows, aglT, speedT) ==
  DetectLoop(rows, aglT, speedT, 0,
             [inZone |-> FALSE, startIdx |-> -1, stops |-> <<>>,
              visited |-> visitedAirports, exited |-> 0])

detectIntermediateStops(rows, aglT, speedT) ==
  DetectLoop(rows, aglT, speedT, 0,
             [inZone |-> FALSE, startIdx |-> -1, stops |-> <<>>,
              visited |-> {}, exited |-> 0])

\* intermediateStops.filter(stop => stop.airport !== departureAirport), the
\* arrival airport left in
FilterDepartureOnly(stops, departureAirport, arrivalAirport) ==
  SelectSeq(stops, LAMBDA stop : stop.airport # departureAirport)

\* intermediateStops.filter(stop => stop.airport !== departureAirport &&
\*                                  stop.airport !== arrivalAirport)
FilterStops(stops, departureAirport, arrivalAirport) ==
  SelectSeq(stops, LAMBDA stop : /\ stop.airport # departureAirport
                                 /\ stop.airport # arrivalAirport)

MaxParseLen == 4

\* rows at either end of the modelled stretch, low or high
ParseRows == { row \in TrackRows : row.Latitude \in {0, MaxPos} }

ParseTracks == UNION { [1..n -> ParseRows] : n \in 1..MaxParseLen }

\* extractAirportCode(file.name): no code in the name, or some code
FileNameCodes == {NullCode, AirportCodes[1]}

InitParse ==
  /\ airports \in Catalogs(StopAirportLats, {"small_airport"})
  /\ queryLat = 0
  /\ suggestedCode \in FileNameCodes
  /\ nearest = Null
  /\ verified = NullCode
  /\ fpc = "off"
  /\ ClassifierIdle
  /\ SimplifyIdle
  /\ UploadIdle
  /\ LabelsIdle
  /\ ThresholdsDefault
  /\ data \in ParseTracks
  /\ i = 0
  /\ inLowSlowZone = FALSE
  /\ lowSlowStartIdx = -1
  /\ intermediateStops = <<>>
  /\ visitedAirports = {}
  /\ spc = "parse"
  /\ zonesExited = 0
  /\ removedCodes = {}
  /\ lastResolved = NullCode

\* parseFile, lines 272-312: start and end are the first and the last point
\* of the track, the departure code is verified at start, the arrival
\* airport is the nearest to end, and the stops detected on data are
\* filtered
ResolveFlight ==
  /\ spc = "parse"
  /\ LET start == data[1].Latitude
         end == data[Len(data)].Latitude
         departureAirport == verifyAirportCode(suggestedCode, start)
         arrival == findNearestAirport(end)
     IN  /\ verified' = departureAirport
         /\ nearest' = arrival
         /\ intermediateStops' =
              FilterStops(detectIntermediateStops(data, aglThreshold,
                                                  speedThreshold),
                          departureAirport, arrival.code)
  /\ spc' = "resolved"
  /\ UNCHANGED <<airports, queryLat, suggestedCode, fpc, thresholdVars, simplifyVars, uploadVars,
                 data, i, inLowSlowZone, lowSlowStartIdx, visitedAirports,
                 zonesExited, removedCodes, lastResolved,
                 classifyVars, labelVars>>

NextParse == ResolveFlight

SpecParse == InitParse /\ [][NextParse]_vars

\* C11: in every flight that parseFile resolves, no intermediate stop
\* carries the departure code or the arrival code of the flight.
C11_StopsExcludeEndpoints ==
  spc = "resolved" =>
     \A j \in 1..Len(intermediateStops) :
        /\ intermediateStops[j].airport # verified
        /\ intermediateStops[j].airport # nearest.code

\* a flight whose detected stops held the arrival airport, which the filter
\* removed, and another airport, which it kept
C11_Witness ==
  /\ spc = "resolved"
  /\ Len(intermediateStops) >= 1
  /\ \E j \in 1..Len(detectIntermediateStops(data, aglThreshold, speedThreshold)) :
        detectIntermediateStops(data, aglThreshold, speedThreshold)[j].airport
          = nearest.code

(***************************************************************************)
(* Polyline simplification (perpendicularDistance, simplifyPolyline)       *)
(*                                                                         *)
(* Points are <<x, y, k>>: coordinates on a small square grid, over which  *)
(* the distance of getDistance is modelled as the planar distance in grid  *)
(* units, and k, the index of the point in the input, a history field that *)
(* the code never reads ([px, py] = point).  Distances are kept as the     *)
(* squared distance, a fraction n / d with d > 0.                          *)
(***************************************************************************)
MaxCoord == 1            \* grid coordinates 0..MaxCoord
MaxPoints == 4           \* longest polyline, in points
MaxEpsilon == 2          \* largest epsilon, in grid units

Fraction(n, d) == [n |-> n, d |-> d]

\* getDistance(px, py, qx, qy), squared
PointDistance(p, q) ==
  Fraction((p[1] - q[1]) * (p[1] - q[1]) + (p[2] - q[2]) * (p[2] - q[2]), 1)

\* a > b of two distances
Greater(a, b) == a.n * b.d > b.n * a.d

perpendicularDistance(point, lineStart, lineEnd) ==
  LET dx == lineEnd[1] - lineStart[1]
      dy == lineEnd[2] - lineStart[2]
      dot == (point[1] - lineStart[1]) * dx + (point[2] - lineStart[2]) * dy
      len2 == dx * dx + dy * dy
  IN  IF dx = 0 /\ dy = 0 THEN PointDistance(point, lineStart)
      ELSE IF dot <= 0 THEN PointDistance(point, lineStart)      \* t = 0
      ELSE IF dot >= len2 THEN PointDistance(point, lineEnd)     \* t = 1
      ELSE Fraction(PointDistance(point, lineStart).n * len2 - dot * dot, len2)

\* the loop for (let i = 1; i < end; i++) from i on (0-based)
RECURSIVE FindMax(_, _, _)
FindMax(pts, idx, best) ==
  IF idx >= Len(pts) - 1 THEN best
  ELSE LET distance == perpendicularDistance(pts[idx + 1], pts[1], pts[Len(pts)])
       IN  IF Greater(distance, best.maxDistance)
             THEN FindMax(pts, idx + 1, [maxDistance |-> distance, maxIndex |-> idx])
             ELSE FindMax(pts, idx + 1, best)

\* maxDistance > epsilon + 1
ExceedsEpsilonLoosely(maxDistance, eps) ==
  maxDistance.n > (eps + 1) * (eps + 1) * maxDistance.d

\* maxDistance >= epsilon
ExceedsOrEqualsEpsilon(maxDistance, eps) ==
  maxDistance.n >= eps * eps * maxDistance.d

\* maxDistance > epsilon
ExceedsEpsilon(maxDistance, eps) == maxDistance.n > eps * eps * maxDistance.d

\* leftSegment.concat(rightSegment)
CombineKeepingBoth(leftSegment, rightSegment) == leftSegment \o rightSegment

\* leftSegment.slice(0, -1).concat(rightSegment)
Combine(leftSegment, rightSegment) ==
  SubSeq(leftSegment, 1, Len(leftSegment) - 1) \o rightSegment

\* [points[0], points[end - 1]]
EndpointsShort(pts) == <<pts[1], pts[Len(pts) - 1]>>

\* [points[0], points[end]]
Endpoints(pts) == <<pts[1], pts[Len(pts)]>>

RECURSIVE simplifyPolyline(_, _)
simplifyPolyline(pts, eps) ==
  IF Len(pts) <= 2 THEN pts
  ELSE
    LET found == FindMax(pts, 1, [maxDistance |-> Fraction(0, 1), maxIndex |-> 0])
    IN  IF ExceedsEpsilon(found.maxDistance, eps)
          THEN Combine(simplifyPolyline(SubSeq(pts, 1, found.maxIndex + 1), eps),
                       simplifyPolyline(SubSeq(pts, found.maxIndex + 1, Len(pts)), eps))
          ELSE Endpoints(pts)

(***************************************************************************)
(* SpecSimplify: one call of simplifyPolyline on every polyline of at most *)
(* MaxPoints grid points and every epsilon up to MaxEpsilon                *)
(***************************************************************************)
Grid == (0..MaxCoord) \X (0..MaxCoord)

\* the polyline of the grid points f[1], ..., f[n], each with its index
Polyline(f) == [k \in DOMAIN f |-> <<f[k][1], f[k][2], k>>]

InitSimplify ==
  /\ airports = <<>>
  /\ FinderIdle
  /\ ThresholdsDefault
  /\ DetectorIdle
  /\ ClassifierIdle
  /\ UploadIdle
  /\ LabelsIdle
  /\ \E n \in 0..MaxPoints : \E f \in [1..n -> Grid] : points = Polyline(f)
  /\ epsilon \in 0..MaxEpsilon
  /\ simplified = <<>>
  /\ mpc = "ready"
  /\ calls = <<>>
  /\ entered = 0

Simplify ==
  /\ mpc = "ready"
  /\ simplified' = simplifyPolyline(points, epsilon)
  /\ mpc' = "returned"
  /\ UNCHANGED <<airports, finderVars, thresholdVars, points, epsilon, calls,
                 entered, uploadVars, detectorVars, classifyVars, labelVars>>

NextSimplify == Simplify

SpecSimplify == InitSimplify /\ [][NextSimplify]_vars

\* the input indices of the points that simplifyPolyline returned
Kept == { simplified[k][3] : k \in 1..Len(simplified) }

\* C12: for an input of at least two points, the first and the last point of
\* the output of simplifyPolyline are the first and the last point of the input
C12_EndpointsPreserved ==
  (mpc = "returned" /\ Len(points) >= 2) =>
     /\ Len(simplified) >= 2
     /\ simplified[1] = points[1]
     /\ simplified[Len(simplified)] = points[Len(points)]

\* a split has happened and a point was dropped, between endpoints that differ
C12_Witness ==
  /\ mpc = "returned"
  /\ Len(points) = MaxPoints
  /\ Len(simplified) = 3
  /\ points[1] # points[Len(points)]

\* C13: every input point that simplifyPolyline omits lies at a perpendicular
\* distance of at most epsilon from the segment joining the two output points
\* that bracket it in input order; with epsilon 0 that distance is exactly 0
C13_OmittedWithinEpsilon ==
  mpc = "returned" =>
    \A j \in 1..Len(points) :
      j \notin Kept =>
        \E a \in Kept, b \in Kept :
          /\ a < j /\ j < b
          /\ \A k \in Kept : k <= a \/ k >= b
          /\ LET distance == perpendicularDistance(points[j], points[a], points[b])
             IN  /\ distance.n <= epsilon * epsilon * distance.d
                 /\ epsilon = 0 => distance.n = 0

\* a point off the bracketing segment is dropped under a positive epsilon, in
\* a polyline that was split first
C13_Witness ==
  /\ mpc = "returned"
  /\ epsilon > 0
  /\ Len(simplified) >= 3
  /\ \E j \in 1..Len(points) :
       /\ j \notin Kept
       /\ \E a \in Kept, b \in Kept :
            /\ a < j /\ j < b
            /\ \A k \in Kept : k <= a \/ k >= b
            /\ perpendicularDistance(points[j], points[a], points[b]).n > 0

\* C14: the output of simplifyPolyline is a subsequence of its input in the
\* input's order, and an input of at most two points is returned unchanged
C14_OrderedSubsequence ==
  mpc = "returned" =>
    /\ \A k \in 1..Len(simplified) :
         /\ simplified[k][3] \in 1..Len(points)
         /\ simplified[k] = points[simplified[k][3]]
    /\ \A k \in 1..(Len(simplified) - 1) : simplified[k][3] < simplified[k + 1][3]
    /\ Len(points) <= 2 => simplified = points

\* both halves of a split kept an interior point
C14_Witness ==
  /\ mpc = "returned"
  /\ Len(points) = MaxPoints
  /\ Len(simplified) = Len(points)
  /\ \E j \in 2..Len(points) : points[j][1] < points[j - 1][1]

(***************************************************************************)
(* Claims on adjustLabelPosition (SpecLabel)                               *)
(***************************************************************************)
\* the pixel distance of two positions is d, up to the rounding of a
\* coordinate to a tenth of a pixel
AtDistance(p, q, d) ==
  /\ Dist2(p, q) >= (Px(d) - 1) * (Px(d) - 1)
  /\ Dist2(p, q) <= (Px(d) + 1) * (Px(d) + 1)

\* C15: adjustLabelPosition returns for every anchor and every set of
\* existing labels; it tests at most 8 candidates of the preferred ring and at
\* most 32 of the spiral, and when none is accepted it returns the position
\* at MAX_PIXEL_DISTANCE from the anchor, whatever lies there
C15_AlwaysReturns ==
  /\ pending # NoCall =>
       /\ ENABLED (ReturnPreferred \/ ReturnSpiral \/ ReturnForced)
       /\ pending.search.ringTests <= 8
       /\ pending.search.spiralTests <= 32
       /\ pending.search.via = "forced" <=>
            /\ pending.search.ringTests = 8
            /\ "testPoint" \notin DOMAIN pending.search
  /\ \A j \in 1..Len(existingLabels) :
       existingLabels[j].via = "forced" =>
          AtDistance(existingLabels[j].labelPosition, existingLabels[j].position,
                     MAX_PIXEL_DISTANCE)

\* after 8 + 32 rejected candidates a forced fallback is pending, and a
\* forced label was stored closer than labelDistance to another label
C15_Witness ==
  /\ pending # NoCall
  /\ pending.search.via = "forced"
  /\ pending.search.ringTests = 8
  /\ pending.search.spiralTests = 32
  /\ \E a, b \in 1..Len(existingLabels) :
       /\ a # b
       /\ existingLabels[b].via = "forced"
       /\ existingLabels[a].seq < existingLabels[b].seq
       /\ CloserThan(latLngToContainerPoint(existingLabels[b].labelPosition),
                     latLngToContainerPoint(existingLabels[a].labelPosition),
                     getZoomAdjustedValues(zoom).labelDistance)

\* the first preferred candidate: 20 px from the anchor at angle PI/2
FirstCandidate(point) == Add(point, <<0, Px(20)>>)

\* C16: when no label of another code lies closer than labelDistance to the
\* first preferred candidate, adjustLabelPosition returns that candidate; and
\* every returned position differs from the anchor, so that createAirportLabel
\* creates a connector for every label
C16_FirstCandidateAndMoved ==
  /\ pending # NoCall =>
       LET first == FirstCandidate(latLngToContainerPoint(pending.position))
           isFree == \A j \in 1..Len(existingLabels) :
                        \/ existingLabels[j].code = pending.airport
                        \/ ~CloserThan(first,
                               latLngToContainerPoint(existingLabels[j].labelPosition),
                               getZoomAdjustedValues(zoom).labelDistance)
       IN  isFree => /\ pending.search.via = "preferred"
                     /\ pending.search.testPoint = first
  /\ \A j \in 1..Len(existingLabels) :
       /\ existingLabels[j].labelPosition # existingLabels[j].position
       /\ existingLabels[j].connector

\* with other labels in the map, a label was returned at its first preferred
\* candidate, and labels of all three returns have their connectors
C16_Witness ==
  /\ \E j \in 1..Len(existingLabels) :
       /\ existingLabels[j].seq >= 2
       /\ existingLabels[j].via = "preferred"
       /\ latLngToContainerPoint(existingLabels[j].labelPosition) =
            FirstCandidate(latLngToContainerPoint(existingLabels[j].position))
       /\ existingLabels[j].connector
  /\ \E j \in 1..Len(existingLabels) :
       existingLabels[j].via = "forced" /\ existingLabels[j].connector
  /\ \E j \in 1..Len(existingLabels) :
       existingLabels[j].via = "spiral" /\ existingLabels[j].connector

(***************************************************************************)
(* The upload handler (setupFileUploadHandler) and the catalog loader      *)
(* (loadAirportsData)                                                      *)
(*                                                                         *)
(* airportsLoading is the promise of the loader: "null", "pending",        *)
(* "resolved" or "rejected".  catalogState tells what the airports object  *)
(* holds: "none" before any load, "loaded" after Papa.parse completed,     *)
(* "failed" after the loader's catch emptied it.  A file is                *)
(* [name, outcome, result]: names are numbered in the order of             *)
(* localeCompare, outcome is what parseFile and renderFlight will do with  *)
(* the file, result is the state of its parse promise.  hpc is the         *)
(* position of the handler: "idle", "awaitLoad" (line 61), "parsing"       *)
(* (line 136) or "timer" (line 192).                                       *)
(***************************************************************************)
MaxUploads == 2          \* change events per behaviour
MaxFiles == 2            \* files per change event

FileNames == 1..MaxFiles

\* parseFile resolves with a flight that renders; resolves with a flight
\* whose rendering throws; resolves with null (no valid row); rejects
ParseOutcomes == {"flight", "renderThrows", "empty", "rejected"}

\* the lists event.target.files can hold: distinct names in any order
FileSelections ==
  UNION { { f \in [1..n -> [name : FileNames, outcome : ParseOutcomes]] :
              \A a, b \in 1..n : a # b => f[a].name # f[b].name } :
          n \in 0..MaxFiles }

\* the files left in the order of the selection
SortAsSelected(fs) == fs

\* files.sort((a, b) => a.name.localeCompare(b.name))
RECURSIVE SortByName(_)
SortByName(fs) ==
  IF Len(fs) <= 1 THEN fs
  ELSE LET least == CHOOSE a \in 1..Len(fs) :
                       \A b \in 1..Len(fs) : fs[a].name <= fs[b].name
       IN  <<fs[least]>> \o
           SortByName(SubSeq(fs, 1, least - 1) \o SubSeq(fs, least + 1, Len(fs)))

\* Array.from(event.target.files), sorted: no parseFile call yet
Selected(selection) ==
  [k \in 1..Len(selection) |-> [name |-> SortByName(selection)[k].name,
                                 outcome |-> SortByName(selection)[k].outcome,
                                 result |-> "notStarted",
                                 settled |-> 0]]

\* files.map(file => parseFile(file)...): every parse promise pending
StartParsing(fs) ==
  [k \in 1..Len(fs) |-> [name |-> fs[k].name, outcome |-> fs[k].outcome,
                         result |-> "pending", settled |-> 0]]

\* what the promise of parseFile(file).then(...).catch(...) settles to
ParseResult(outcome) ==
  IF outcome \in {"flight", "renderThrows"} THEN "flight" ELSE "null"

\* allFlightData up to the first null
validFlightsUntilNull(fs) ==
  IF \E k \in 1..Len(fs) : fs[k].result = "null"
    THEN SubSeq(fs, 1, (CHOOSE k \in 1..Len(fs) :
                          /\ fs[k].result = "null"
                          /\ \A j \in 1..(k - 1) : fs[j].result # "null") - 1)
    ELSE fs

\* allFlightData.filter(data => data !== null)
validFlights(fs) == SelectSeq(fs, LAMBDA file : file.result # "null")

\* the palette getNextFlightColor cycles through
FLIGHT_COLORS ==
  <<"#ff0000", "#ff8800", "#ffaa00", "#00aaff", "#00cc66", "#cc00ff", "#ff0099",
    "#0055ff">>

\* FLIGHT_COLORS[colorIndex++ % FLIGHT_COLORS.length], colorIndex counted
\* from the 0 that resetMap leaves
getNextFlightColor(colorIndex) ==
  FLIGHT_COLORS[(colorIndex % Len(FLIGHT_COLORS)) + 1]

\* validFlights.forEach: a colour is taken and renderFlight is called for
\* each flight, and a throw is caught for that flight alone
RenderAll(flights) ==
  [k \in 1..Len(flights) |->
     [name |-> flights[k].name, drawn |-> flights[k].outcome = "flight",
      color |-> getNextFlightColor(k - 1)]]

InitUpload ==
  /\ airports = <<>>
  /\ FinderIdle
  /\ ThresholdsDefault
  /\ DetectorIdle
  /\ ClassifierIdle
  /\ SimplifyIdle
  /\ LabelsIdle
  /\ airportsLoaded = FALSE
  /\ airportsLoading = "null"
  /\ catalogState = "none"
  /\ hpc = "idle"
  /\ files = <<>>
  /\ rendered = <<>>
  /\ inputDisabled = FALSE
  /\ uploads = 0

UploadFrame == <<airports, finderVars, thresholdVars, simplifyVars, detectorVars,
                 classifyVars, labelVars>>

\* the change event with no file: the handler returns at once
ChangeNoFiles ==
  /\ hpc = "idle"
  /\ ~inputDisabled
  /\ uploads < MaxUploads
  /\ uploads' = uploads + 1
  /\ UNCHANGED <<UploadFrame, airportsLoaded, airportsLoading, catalogState, hpc,
                 files, rendered, inputDisabled>>

\* the change event on a catalog not marked loaded: the handler runs up to
\* await loadAirportsData(), which starts the load unless a promise exists
ChangeAwaitingCatalog ==
  /\ hpc = "idle"
  /\ ~inputDisabled
  /\ uploads < MaxUploads
  /\ ~airportsLoaded
  /\ \E selection \in FileSelections :
        /\ Len(selection) > 0
        /\ files' = Selected(selection)
  /\ uploads' = uploads + 1
  /\ inputDisabled' = TRUE
  /\ rendered' = <<>>
  /\ airportsLoading' = IF airportsLoading = "null" THEN "pending"
                                                    ELSE airportsLoading
  /\ hpc' = "awaitLoad"
  /\ UNCHANGED <<UploadFrame, airportsLoaded, catalogState>>

\* the change event on a catalog marked loaded, with line 47 left out
ChangeParsingInputEnabled ==
  /\ hpc = "idle"
  /\ ~inputDisabled
  /\ uploads < MaxUploads
  /\ airportsLoaded
  /\ \E selection \in FileSelections :
        /\ Len(selection) > 0
        /\ files' = StartParsing(Selected(selection))
  /\ uploads' = uploads + 1
  /\ rendered' = <<>>
  /\ hpc' = "parsing"
  /\ UNCHANGED <<UploadFrame, airportsLoaded, airportsLoading, catalogState,
                 inputDisabled>>

\* the change event on a catalog marked loaded: the handler runs up to
\* await Promise.all(parsePromises)
ChangeParsing ==
  /\ hpc = "idle"
  /\ ~inputDisabled
  /\ uploads < MaxUploads
  /\ airportsLoaded
  /\ \E selection \in FileSelections :
        /\ Len(selection) > 0
        /\ files' = StartParsing(Selected(selection))
  /\ uploads' = uploads + 1
  /\ inputDisabled' = TRUE
  /\ rendered' = <<>>
  /\ hpc' = "parsing"
  /\ UNCHANGED <<UploadFrame, airportsLoaded, airportsLoading, catalogState>>

\* loadAirportsData: Papa.parse completes
LoadComplete ==
  /\ airportsLoading = "pending"
  /\ catalogState' = "loaded"
  /\ airportsLoaded' = TRUE
  /\ airportsLoading' = "resolved"
  /\ UNCHANGED <<UploadFrame, hpc, files, rendered, inputDisabled, uploads>>

\* loadAirportsData: the remote and the local fetch both fail
LoadFetchFails ==
  /\ airportsLoading = "pending"
  /\ catalogState' = "failed"
  /\ airportsLoaded' = TRUE
  /\ airportsLoading' = "rejected"
  /\ UNCHANGED <<UploadFrame, hpc, files, rendered, inputDisabled, uploads>>

\* loadAirportsData: Papa.parse reports an error
LoadParseError ==
  /\ airportsLoading = "pending"
  /\ airportsLoading' = "rejected"
  /\ UNCHANGED <<UploadFrame, airportsLoaded, catalogState, hpc, files, rendered,
                 inputDisabled, uploads>>

\* await loadAirportsData() returns: the handler runs on up to
\* await Promise.all(parsePromises)
CatalogAwaited ==
  /\ hpc = "awaitLoad"
  /\ airportsLoading = "resolved"
  /\ files' = StartParsing(files)
  /\ hpc' = "parsing"
  /\ UNCHANGED <<UploadFrame, airportsLoaded, airportsLoading, catalogState,
                 rendered, inputDisabled, uploads>>

\* await loadAirportsData() throws: the handler enables the input and returns
CatalogLoadFailed ==
  /\ hpc = "awaitLoad"
  /\ airportsLoading = "rejected"
  /\ inputDisabled' = FALSE
  /\ hpc' = "idle"
  /\ UNCHANGED <<UploadFrame, airportsLoaded, airportsLoading, catalogState,
                 files, rendered, uploads>>

\* one parse promise settles, in any order; settled is history: its rank in
\* the order of completion (completedCount after the increment)
FileSettles ==
  /\ hpc = "parsing"
  /\ \E k \in 1..Len(files) :
        /\ files[k].result = "pending"
        /\ files' = [files EXCEPT
                       ![k].result = ParseResult(files[k].outcome),
                       ![k].settled =
                          1 + Cardinality({ j \in 1..Len(files) :
                                              files[j].result # "pending" })]
  /\ UNCHANGED <<UploadFrame, airportsLoaded, airportsLoading, catalogState, hpc,
                 rendered, inputDisabled, uploads>>

\* Promise.all resolves: the handler renders the flights and sets the timer
RenderFlights ==
  /\ hpc = "parsing"
  /\ \A k \in 1..Len(files) : files[k].result # "pending"
  /\ rendered' = RenderAll(validFlights(files))
  /\ hpc' = "timer"
  /\ UNCHANGED <<UploadFrame, airportsLoaded, airportsLoading, catalogState,
                 files, inputDisabled, uploads>>

\* the timer callback, the final step of an upload
TimerFires ==
  /\ hpc = "timer"
  /\ inputDisabled' = FALSE
  /\ hpc' = "idle"
  /\ UNCHANGED <<UploadFrame, airportsLoaded, airportsLoading, catalogState,
                 files, rendered, uploads>>

NextUpload ==
  \/ ChangeNoFiles
  \/ ChangeAwaitingCatalog
  \/ ChangeParsing
  \/ LoadComplete
  \/ LoadFetchFails
  \/ LoadParseError
  \/ CatalogAwaited
  \/ CatalogLoadFailed
  \/ FileSettles
  \/ RenderFlights
  \/ TimerFires

SpecUpload == InitUpload /\ [][NextUpload]_vars

\* every promise settles and every timer fires
SpecUploadFair ==
  /\ SpecUpload
  /\ WF_vars(LoadComplete \/ LoadFetchFails \/ LoadParseError)
  /\ WF_vars(CatalogAwaited)
  /\ WF_vars(CatalogLoadFailed)
  /\ WF_vars(FileSettles)
  /\ WF_vars(RenderFlights)
  /\ WF_vars(TimerFires)

\* C17: no track is parsed, on any upload, before the airport catalog has
\* finished loading, and an upload whose load failed processes no track
C17_Claim ==
  /\ hpc \in {"parsing", "timer"} => catalogState = "loaded"
  /\ \A k \in 1..Len(files) :
       files[k].result # "notStarted" => catalogState = "loaded"

\* C17: the part of the claim on the upload whose load failed
C17_FailedLoadProcessesNothing ==
  [][CatalogLoadFailed => /\ rendered' = <<>>
                          /\ \A k \in 1..Len(files') :
                               files'[k].result = "notStarted"]_vars

\* C18: within one upload a failing file (its parse rejects, it has no valid
\* row, or its rendering throws) does not keep the others from being
\* processed: when the handler sets its timer, renderFlight was called for
\* exactly the files whose parse resolved to a flight, and an upload that
\* started parsing always reaches that final step
C18_FailuresIsolated ==
  /\ [](hpc = "timer" =>
          /\ \A k \in 1..Len(files) :
               files[k].outcome \in {"flight", "renderThrows"} <=>
                  \E j \in 1..Len(rendered) : rendered[j].name = files[k].name
          /\ \A k \in 1..Len(files) :
               files[k].outcome = "flight" =>
                  \E j \in 1..Len(rendered) :
                     rendered[j].name = files[k].name /\ rendered[j].drawn)
  /\ (hpc = "parsing" ~> hpc = "timer")
  /\ (hpc = "timer" ~> (hpc = "idle" /\ ~inputDisabled))

\* the first file was rejected and the second was drawn
C18_Witness ==
  /\ hpc = "timer"
  /\ Len(files) = 2
  /\ files[1].outcome = "rejected"
  /\ files[2].outcome = "flight"
  /\ Len(rendered) = 1
  /\ rendered[1].name = files[2].name
  /\ rendered[1].drawn

(***************************************************************************)
(* The thresholds parseFile reads from the page                            *)
(* (parseFloat(document.getElementById(...).value) || 20)                  *)
(*                                                                         *)
(* The value of an input element is a text, here a sequence of decimal     *)
(* digits; the empty text is the element the caller has not set.           *)
(***************************************************************************)
MaxDigits == 2           \* longest text of a threshold field

Digits == {0, 1, 2, 5}

FieldTexts == UNION { [1..n -> Digits] : n \in 0..MaxDigits }

NaN == [js |-> "NaN"]

\* the number a text of digits denotes
RECURSIVE DigitsValue(_)
DigitsValue(text) ==
  IF Len(text) = 0 THEN 0
  ELSE 10 * DigitsValue(SubSeq(text, 1, Len(text) - 1)) + text[Len(text)]

parseFloat(text) == IF Len(text) = 0 THEN NaN ELSE Num(DigitsValue(text))

\* v || 20: NaN and 0 are falsy
OrDefault(v) ==
  IF v = NaN THEN DefaultThreshold
  ELSE IF v.value = 0 THEN DefaultThreshold
  ELSE v.value

InitThresholds ==
  /\ airports = <<>>
  /\ FinderIdle
  /\ ClassifierIdle
  /\ SimplifyIdle
  /\ UploadIdle
  /\ LabelsIdle
  /\ data = <<>>
  /\ i = 0
  /\ inLowSlowZone = FALSE
  /\ lowSlowStartIdx = -1
  /\ intermediateStops = <<>>
  /\ visitedAirports = {}
  /\ spc = "thresholds"
  /\ zonesExited = 0
  /\ removedCodes = {}
  /\ lastResolved = NullCode
  /\ aglField \in { [text |-> t] : t \in FieldTexts }
  /\ speedField \in { [text |-> t] : t \in FieldTexts }
  /\ aglThreshold = DefaultThreshold
  /\ speedThreshold = DefaultThreshold

\* parseFile, lines 290-291: the thresholds handed to detectIntermediateStops
ReadThresholds ==
  /\ spc = "thresholds"
  /\ aglThreshold' = OrDefault(parseFloat(aglField.text))
  /\ speedThreshold' = OrDefault(parseFloat(speedField.text))
  /\ spc' = "detect"
  /\ UNCHANGED <<airports, finderVars, aglField, speedField, simplifyVars,
                 uploadVars, data, i, inLowSlowZone, lowSlowStartIdx,
                 intermediateStops, visitedAirports, zonesExited, removedCodes,
                 lastResolved, classifyVars, labelVars>>

NextThresholds == ReadThresholds

SpecThresholds == InitThresholds /\ [][NextThresholds]_vars

\* the threshold the caller asked for with the text of a field
Supplied(field) ==
  IF field = NoText THEN DefaultThreshold ELSE DigitsValue(field.text)

\* C19: the thresholds passed to detectIntermediateStops are 20 where the
\* caller has set no value and the caller's value where one is set, for every
\* numeric value, 0 included
C19_Claim ==
  spc = "detect" => /\ aglThreshold = Supplied(aglField)
                    /\ speedThreshold = Supplied(speedField)

(***************************************************************************)
(* SpecPriority: the type priority at work in its two places, on catalogs  *)
(* of two airports half a kilometre apart, of every listed type, of a      *)
(* type that is not listed and of no type: findNearestAirport on a point   *)
(* away from both, and the conflict resolution of detectIntermediateStops  *)
(* on two zone exits                                                       *)
(***************************************************************************)
UnlistedType == "balloonport"

PriorityTypes == DOMAIN AIRPORT_TYPE_PRIORITY \cup {UnlistedType, NoType}

PriorityLats == {3, 4}

\* midpoints of low-and-slow zones: away from both airports, within 1 km of
\* the southern one only, within 1 km of the northern one only
ZoneMidpoints == {0, 1, MaxPos}

InitPriority ==
  /\ airports \in CatalogsOf(PriorityLats, PriorityTypes, 2)
  /\ queryLat = 0
  /\ suggestedCode = NullCode
  /\ nearest = Null
  /\ verified = NullCode
  /\ fpc = "idle"
  /\ ThresholdsDefault
  /\ ClassifierIdle
  /\ SimplifyIdle
  /\ UploadIdle
  /\ LabelsIdle
  /\ data = <<>>
  /\ i = 0
  /\ inLowSlowZone = FALSE
  /\ lowSlowStartIdx = -1
  /\ intermediateStops = <<>>
  /\ visitedAirports = {}
  /\ spc = "zones"
  /\ zonesExited = 0
  /\ removedCodes = {}
  /\ lastResolved = NullCode

\* detectIntermediateStops, lines 74-152, at two zone exits in a row: each
\* resolves its midpoint with findNearestAirport and records the stop
ResolveTwoZones ==
  /\ spc = "zones"
  /\ \E mid1 \in ZoneMidpoints, mid2 \in ZoneMidpoints :
        LET first == RecordStop(<<>>, {}, findNearestAirport(mid1), mid1, 1)
            second == RecordStop(first.stops, first.visited,
                                 findNearestAirport(mid2), mid2, 2)
        IN  /\ intermediateStops' = second.stops
            /\ visitedAirports' = second.visited
            /\ removedCodes' = second.removed
            /\ lastResolved' = findNearestAirport(mid2).code
  /\ zonesExited' = 2
  /\ spc' = "resolved"
  /\ UNCHANGED <<airports, finderVars, thresholdVars, simplifyVars, uploadVars,
                 data, i, inLowSlowZone, lowSlowStartIdx, classifyVars, labelVars>>

NextPriority == FindNearest \/ ResolveTwoZones

SpecPriority == InitPriority /\ [][NextPriority]_vars

\* the order the priority is said to be: closed < heliport < seaplane_base
\* < small_airport < medium_airport = large_airport; a missing or unlisted
\* type ranks in one place, that of heliport
ClaimedRank(type) ==
  CASE type = "closed" -> 1
    [] type = "heliport" -> 2
    [] type = "seaplane_base" -> 3
    [] type = "small_airport" -> 4
    [] type = "medium_airport" -> 5
    [] type = "large_airport" -> 5
    [] OTHER -> 2

InitRerun ==
  /\ airports \in Catalogs(StopAirportLats, {"small_airport"})
  /\ FinderIdle
  /\ ClassifierIdle
  /\ SimplifyIdle
  /\ UploadIdle
  /\ LabelsIdle
  /\ ThresholdsDefault
  /\ data \in ParseTracks
  /\ i = 0
  /\ inLowSlowZone = FALSE
  /\ lowSlowStartIdx = -1
  /\ intermediateStops = <<>>
  /\ visitedAirports = {}
  /\ spc = "first"
  /\ zonesExited = 0
  /\ removedCodes = {}
  /\ lastResolved = NullCode

\* one call of detectIntermediateStops(data, aglThreshold, speedThreshold)
CallDetector(from, to) ==
  /\ spc = from
  /\ LET stops == detectIntermediateStops(data, aglThreshold, speedThreshold)
     IN  /\ intermediateStops' = stops
         /\ visitedAirports' = { stops[k].airport : k \in 1..Len(stops) }
  /\ i' = Len(data)
  /\ spc' = to
  /\ UNCHANGED <<airports, finderVars, thresholdVars, simplifyVars, uploadVars,
                 data, inLowSlowZone, lowSlowStartIdx, zonesExited, removedCodes,
                 lastResolved, classifyVars, labelVars>>

FirstRun ==
  /\ spc = "first"
  /\ CallDetector("first", "second")

SecondRun ==
  /\ spc = "second"
  /\ CallDetector("second", "twice")

NextRerun == FirstRun \/ SecondRun

SpecRerun == InitRerun /\ [][NextRerun]_vars

C22_Claim ==
  spc = "done" =>
    \A j, k \in 1..Len(intermediateStops) :
       j # k => getDistance(intermediateStops[j].airportLat,
                            intermediateStops[k].airportLat)
                  >= Km(PROXIMITY_THRESHOLD_KM)

\* C25: the flights of an upload are rendered, and take their colours, in
\* ascending order of file name, whatever the order in which the parses
\* completed; a file whose parse failed or found no row is left out and the
\* others keep their order
C25_RenderedInNameOrder ==
  hpc = "timer" =>
    /\ \A j, k \in 1..Len(rendered) :
         j < k => rendered[j].name < rendered[k].name
    /\ \A k \in 1..Len(rendered) : rendered[k].color = FLIGHT_COLORS[k]
    /\ \A k \in 1..Len(files) :
         files[k].result = "flight" <=>
            \E j \in 1..Len(rendered) : rendered[j].name = files[k].name

\* the parse of the second file completed before the parse of the first,
\* and both flights were rendered
C25_Witness ==
  /\ hpc = "timer"
  /\ Len(files) = 2
  /\ files[2].settled = 1
  /\ files[1].settled = 2
  /\ Len(rendered) = 2
  /\ rendered[1].name = files[1].name
  /\ rendered[1].color = "#ff0000"
  /\ rendered[2].color = "#ff8800"

\* C26: while the handler of a non-empty upload is anywhere between its
\* start and its timer the file input is disabled, so the input is enabled
\* only when no upload is running, and on every path the input is enabled
\* again
C26_InputDisabledWhileBusy ==
  /\ [](~inputDisabled => hpc = "idle")
  /\ [][uploads' # uploads => ~inputDisabled /\ hpc = "idle"]_vars
  /\ (inputDisabled ~> ~inputDisabled)

\* an upload with a rejected parse and a throwing render has ended and the
\* input is enabled
C26_Witness ==
  /\ hpc = "idle"
  /\ ~inputDisabled
  /\ Len(files) = 2
  /\ files[1].outcome = "rejected"
  /\ files[2].outcome = "renderThrows"
  /\ Len(rendered) = 1
  /\ ~rendered[1].drawn

(***************************************************************************)
(* SpecRecursion: the call tree of simplifyPolyline.  calls holds the      *)
(* calls that were made and not yet entered, the next one first; each is   *)
(* [points, callerLength, maxIndex]: its argument and, as history, the     *)
(* length of its caller's argument and the caller's maxIndex (0-based).    *)
(* The polylines start at the origin of the grid.                          *)
(***************************************************************************)
MaxCalls == 2 * MaxPoints

Call(pts, callerLength, maxIndex) ==
  [points |-> pts, callerLength |-> callerLength, maxIndex |-> maxIndex]

\* maxDistance and maxIndex after the loop of the call on pts
LoopResult(pts) ==
  FindMax(pts, 1, [maxDistance |-> Fraction(0, 1), maxIndex |-> 0])

\* points.length > 2 and maxDistance > epsilon
Recurses(pts, eps) ==
  /\ Len(pts) > 2
  /\ ExceedsEpsilon(LoopResult(pts).maxDistance, eps)

InitRecursion ==
  /\ airports = <<>>
  /\ FinderIdle
  /\ ThresholdsDefault
  /\ DetectorIdle
  /\ ClassifierIdle
  /\ UploadIdle
  /\ LabelsIdle
  /\ \E n \in 0..MaxPoints : \E f \in [1..n -> Grid] :
        /\ n > 0 => f[1] = <<0, 0>>
        /\ points = Polyline(f)
  /\ epsilon \in 0..MaxEpsilon
  /\ simplified = <<>>
  /\ mpc = "ready"
  /\ calls = <<Call(points, 0, 0)>>
  /\ entered = 0

RecursionFrame == <<airports, finderVars, thresholdVars, points, epsilon,
                    simplified, mpc, uploadVars, detectorVars, classifyVars,
                    labelVars>>

\* the next call returns without calling: points.length <= 2, or
\* maxDistance <= epsilon
CallReturns ==
  /\ calls # <<>>
  /\ entered < MaxCalls
  /\ ~Recurses(Head(calls).points, epsilon)
  /\ calls' = Tail(calls)
  /\ entered' = entered + 1
  /\ UNCHANGED RecursionFrame

\* the next call makes its two calls, on points.slice(0, maxIndex + 1) and
\* on points.slice(maxIndex)
CallRecurses ==
  /\ calls # <<>>
  /\ entered < MaxCalls
  /\ Recurses(Head(calls).points, epsilon)
  /\ LET pts == Head(calls).points
         maxIndex == LoopResult(pts).maxIndex
     IN  calls' = <<Call(SubSeq(pts, 1, maxIndex + 1), Len(pts), maxIndex),
                    Call(SubSeq(pts, maxIndex + 1, Len(pts)), Len(pts), maxIndex)>>
                  \o Tail(calls)
  /\ entered' = entered + 1
  /\ UNCHANGED RecursionFrame

NextRecursion == CallReturns \/ CallRecurses

SpecRecursion == InitRecursion /\ [][NextRecursion]_vars

\* C29: for epsilon >= 0, every call that simplifyPolyline makes on itself
\* comes from a caller whose maxIndex is an interior index
\* (1 <= maxIndex <= length - 2) and gets at least two points and fewer
\* than its caller; so a call on n points enters at most 2n - 3 calls
\* (one for n <= 2) and then no call is left
C29_RecursionShrinks ==
  /\ \A k \in 1..Len(calls) :
       calls[k].callerLength > 0 =>
         /\ 1 <= calls[k].maxIndex
         /\ calls[k].maxIndex <= calls[k].callerLength - 2
         /\ Len(calls[k].points) >= 2
         /\ Len(calls[k].points) < calls[k].callerLength
  /\ entered <= Max2(1, 2 * Len(points) - 3)
  /\ entered = Max2(1, 2 * Len(points) - 3) => calls = <<>>

\* a polyline of four points was split down to its single segments: five
\* calls were entered and none is left
C29_Witness ==
  /\ Len(points) = 4
  /\ entered = 5
  /\ calls = <<>>

(***************************************************************************)
(* SpecZoom: the map is zoomed by quarter steps between level 0 and the    *)
(* maxZoom of the basemap, from the level that setView gives it, and       *)
(* getZoomAdjustedValues is called at the level reached.  pending holds    *)
(* the value returned at the present level, or NoCall.                     *)
(***************************************************************************)
BASEMAP_MAX_ZOOM == 20
INITIAL_ZOOM == 4

InitZoom ==
  /\ airports = <<>>
  /\ FinderIdle
  /\ ThresholdsDefault
  /\ DetectorIdle
  /\ ClassifierIdle
  /\ SimplifyIdle
  /\ UploadIdle
  /\ MapIdle
  /\ zoom = ZoomSteps * INITIAL_ZOOM
  /\ existingLabels = <<>>
  /\ placements = 0
  /\ pending = NoCall

ZoomFrame == <<airports, finderVars, thresholdVars, simplifyVars, uploadVars,
               detectorVars, classifyVars, existingLabels, placements, mapVars>>

\* map.zoomIn(): one zoomDelta up, not beyond the maxZoom of the basemap
ZoomIn ==
  /\ zoom < ZoomSteps * BASEMAP_MAX_ZOOM
  /\ zoom' = zoom + 1
  /\ pending' = NoCall
  /\ UNCHANGED ZoomFrame

\* map.zoomOut(): one zoomDelta down, not below level 0
ZoomOut ==
  /\ zoom > 0
  /\ zoom' = zoom - 1
  /\ pending' = NoCall
  /\ UNCHANGED ZoomFrame

\* const { labelDistance, labelMargin } = getZoomAdjustedValues(map.getZoom())
ReadZoomAdjustedValues ==
  /\ pending = NoCall
  /\ pending' = [call |-> "getZoomAdjustedValues",
                 values |-> getZoomAdjustedValues(zoom)]
  /\ UNCHANGED <<ZoomFrame, zoom>>

NextZoom == ZoomIn \/ ZoomOut \/ ReadZoomAdjustedValues

SpecZoom == InitZoom /\ [][NextZoom]_vars

\* C30: at every zoom level from 0 to 20, in steps of 0.25, the
\* labelDistance and the labelMargin that getZoomAdjustedValues returns are
\* strictly positive
C30_Claim ==
  pending # NoCall =>
    /\ pending.values.labelDistance > 0
    /\ pending.values.labelMargin > 0

\* the spiral candidate number n (from 0) around point: angle (n mod 8) * 45
\* degrees, radius 20 px + floor(n / 8) * labelMargin
SpiralCandidate(point, n, values) ==
  Add(point, Offset(Px(20) + (n \div 8) * values.labelMargin, n % 8))

\* the candidate is at least labelDistance from every label of another code
FreeCandidate(airport, candidate, values) ==
  \A j \in 1..Len(existingLabels) :
     existingLabels[j].code # airport =>
        Dist2(candidate, latLngToContainerPoint(existingLabels[j].labelPosition))
           >= values.labelDistance * values.labelDistance

\* C24: when none of the 8 preferred candidates is free, the spiral tests
\* candidate n = 0..31 in this order at angle (n mod 8) * 45 degrees and
\* radius 20 + floor(n / 8) * labelMargin; it returns the first candidate
\* that is free, and gives up at the first candidate farther than
\* MAX_PIXEL_DISTANCE from the anchor or after 32 candidates
C24_SpiralCandidates ==
  pending # NoCall /\ pending.search.via # "preferred" =>
    LET values == getZoomAdjustedValues(zoom)
        point == latLngToContainerPoint(pending.position)
        tests == pending.search.spiralTests
        Candidate(n) == SpiralCandidate(point, n, values)
    IN  /\ pending.search.ringTests = 8
        /\ pending.search.via = "spiral" =>
             /\ tests \in 1..32
             /\ pending.search.testPoint = Candidate(tests - 1)
             /\ FreeCandidate(pending.airport, Candidate(tests - 1), values)
             /\ \A n \in 0..(tests - 2) :
                  /\ ~FreeCandidate(pending.airport, Candidate(n), values)
                  /\ Dist2(Candidate(n), point)
                       <= Px(MAX_PIXEL_DISTANCE) * Px(MAX_PIXEL_DISTANCE)
             /\ Dist2(Candidate(tests - 1), point)
                  <= Px(MAX_PIXEL_DISTANCE) * Px(MAX_PIXEL_DISTANCE)
        /\ pending.search.via = "forced" =>
             /\ tests \in 0..32
             /\ \A n \in 0..(tests - 1) :
                  /\ ~FreeCandidate(pending.airport, Candidate(n), values)
                  /\ Dist2(Candidate(n), point)
                       <= Px(MAX_PIXEL_DISTANCE) * Px(MAX_PIXEL_DISTANCE)
             /\ tests < 32 =>
                  Dist2(Candidate(tests), point)
                     > Px(MAX_PIXEL_DISTANCE) * Px(MAX_PIXEL_DISTANCE)

\* the spiral returned a candidate of its second revolution
C24_Witness ==
  /\ pending # NoCall
  /\ pending.search.via = "spiral"
  /\ pending.search.spiralTests > 8
  /\ pending.search.testPoint =
       SpiralCandidate(latLngToContainerPoint(pending.position),
                       pending.search.spiralTests - 1,
                       getZoomAdjustedValues(zoom))

(***************************************************************************)
(* SpecMap: the label maps, the checkbox and the zoomend listeners over    *)
(* uploads, checkbox changes and zoom changes.  A label is                 *)
(* [code, position, labelPosition, connector, onMap, connectorOnMap,       *)
(* caller]: connector tells whether createAirportLabel made a connector,   *)
(* onMap and connectorOnMap whether the label and the connector are layers *)
(* of the map, caller who created the label.  A flight is what parseFile resolved to: its departure and arrival *)
(* codes (or null) and the codes of its intermediate stops, which are      *)
(* distinct and differ from the flight's departure and arrival.            *)
(***************************************************************************)
MaxFlights == 2          \* flights rendered by one upload

MapCodes == {"KAAA", "KBBB"}

\* airports[code]: two airports a few pixels apart on the screen
MapAirports ==
  [code \in MapCodes |->
     IF code = "KAAA" THEN containerPointToLatLng(<<0, 0>>)
                      ELSE containerPointToLatLng(<<Px(30), Px(10)>>)]

StopLists(codes) ==
  UNION { { stops \in [1..n -> codes] :
              \A j, k \in 1..n : j # k => stops[j] # stops[k] } :
          n \in 0..Cardinality(codes) }

\* the flights leave from KAAA and arrive at KBBB, where parseFile resolved
\* the airport
MapFlights ==
  UNION { { [departureAirport |-> ends[1], arrivalAirport |-> ends[2],
             intermediateStops |-> stops] :
              stops \in StopLists(MapCodes \ {ends[1], ends[2]}) } :
          ends \in {"KAAA", NullCode} \X {"KBBB", NullCode} }

\* labels.has(code)
HasKey(labels, code) == \E j \in 1..Len(labels) : labels[j].code = code

\* new Map([...a, ...b]): a key of both keeps its place in a and takes the
\* value of b
RECURSIVE MergeMaps(_, _)
MergeMaps(a, b) ==
  IF b = <<>> THEN a ELSE MergeMaps(MapSet(a, Head(b)), Tail(b))

\* createAirportLabel(airport, position, color, null, addToMap) with the
\* two global maps as m holds them; caller is history
createAirportLabel(airport, position, addToMap, m, z, fallbackAngle, caller) ==
  LET labelsToCheck == MergeMaps(m.labeledAirports, m.intermediateStopLabels)
      adjustedPosition ==
        ReturnedPosition(position,
                         SearchPosition(airport, position, labelsToCheck, z),
                         fallbackAngle)
  IN  [code |-> airport,
       position |-> position,
       labelPosition |-> adjustedPosition,
       connector |-> WasMoved(adjustedPosition, position),
       onMap |-> addToMap,
       connectorOnMap |-> WasMoved(adjustedPosition, position) /\ addToMap,
       caller |-> caller]

\* renderFlight, the label of the departure or of the arrival
AddEndpointLabel(m, code, z, fallbackAngle) ==
  IF /\ code # NullCode
     /\ ~HasKey(m.labeledAirports, code)
     /\ code \in DOMAIN MapAirports
    THEN [m EXCEPT !.labeledAirports =
            MapSet(@, createAirportLabel(code, MapAirports[code], TRUE, m, z,
                                         fallbackAngle, "renderFlight"))]
    ELSE m

\* renderFlight, intermediateStops.forEach
RECURSIVE AddStopLabels(_, _, _, _, _)
AddStopLabels(m, stops, checked, z, fallbackAngle) ==
  IF stops = <<>> THEN m
  ELSE AddStopLabels(
         IF /\ ~HasKey(m.labeledAirports, Head(stops))
            /\ ~HasKey(m.intermediateStopLabels, Head(stops))
           THEN [m EXCEPT !.intermediateStopLabels =
                   MapSet(@, createAirportLabel(Head(stops),
                                                MapAirports[Head(stops)],
                                                checked, m, z, fallbackAngle,
                                                "renderFlight"))]
           ELSE m,
         Tail(stops), checked, z, fallbackAngle)

renderFlight(m, flight, checked, z, fallbackAngle) ==
  AddStopLabels(
    AddEndpointLabel(
      AddEndpointLabel(m, flight.departureAirport, z, fallbackAngle),
      flight.arrivalAirport, z, fallbackAngle),
    flight.intermediateStops, checked, z, fallbackAngle)

\* validFlights.forEach(renderFlight)
RECURSIVE RenderOnMap(_, _, _, _, _)
RenderOnMap(m, flights, checked, z, fallbackAngle) ==
  IF flights = <<>> THEN m
  ELSE RenderOnMap(renderFlight(m, Head(flights), checked, z, fallbackAngle),
                   Tail(flights), checked, z, fallbackAngle)

\* the forEach loops of the repositioning handler over the entries saved
\* before the maps were cleared
RECURSIVE RecreateLabels(_, _, _, _, _, _)
RecreateLabels(m, saved, stops, checked, z, fallbackAngle) ==
  IF saved = <<>> THEN m
  ELSE LET details == createAirportLabel(Head(saved).code, Head(saved).position,
                                         IF stops THEN checked ELSE TRUE,
                                         m, z, fallbackAngle, "zoomend")
       IN  RecreateLabels(
             IF stops
               THEN [m EXCEPT !.intermediateStopLabels = MapSet(@, details)]
               ELSE [m EXCEPT !.labeledAirports = MapSet(@, details)],
             Tail(saved), stops, checked, z, fallbackAngle)

\* the repositioning handler with the stop labels recreated like the others
RepositionShowingStops(m, checked, z, fallbackAngle) ==
  RecreateLabels(
    RecreateLabels([labeledAirports |-> <<>>, intermediateStopLabels |-> <<>>],
                   m.labeledAirports, FALSE, TRUE, z, fallbackAngle),
    m.intermediateStopLabels, TRUE, TRUE, z, fallbackAngle)

\* labelRepositioningHandler: both maps are cleared and every label is
\* created again, the stop labels on the map if the checkbox is checked
Reposition(m, checked, z, fallbackAngle) ==
  RecreateLabels(
    RecreateLabels([labeledAirports |-> <<>>, intermediateStopLabels |-> <<>>],
                   m.labeledAirports, FALSE, checked, z, fallbackAngle),
    m.intermediateStopLabels, TRUE, checked, z, fallbackAngle)

\* the listeners of zoomend called one after the other
RECURSIVE Dispatch(_, _, _, _, _)
Dispatch(m, listeners, checked, z, fallbackAngle) ==
  IF listeners = <<>> THEN m
  ELSE Dispatch(IF Head(listeners).fn = "labelRepositioning"
                  THEN Reposition(m, checked, z, fallbackAngle)
                  ELSE m,
                Tail(listeners), checked, z, fallbackAngle)

\* map.off('zoomend'): every listener of the event is removed
RemoveAllListeners(listeners, handler) == <<>>

\* map.off('zoomend', handler), called if handler is not null
RemoveListener(listeners, handler) ==
  IF handler # NoHandler
    THEN SelectSeq(listeners, LAMBDA listener : listener # handler)
    ELSE listeners

\* setupMarkerVisibilityHandler: its listener is added once
WithMarkerVisibility(listeners) ==
  IF markerVisibilityHandlerSetup THEN listeners
  ELSE Append(listeners, [fn |-> "markerVisibility", upload |-> 0,
                          replaced |-> 0])

InitMap ==
  /\ airports = <<>>
  /\ FinderIdle
  /\ ThresholdsDefault
  /\ DetectorIdle
  /\ ClassifierIdle
  /\ SimplifyIdle
  /\ airportsLoaded = FALSE
  /\ airportsLoading = "null"
  /\ catalogState = "none"
  /\ hpc = "idle"
  /\ files = <<>>
  /\ rendered = <<>>
  /\ inputDisabled = FALSE
  /\ uploads = 0
  /\ zoom = ZoomSteps * INITIAL_ZOOM
  /\ existingLabels = <<>>
  /\ placements = 0
  /\ pending = NoCall
  /\ labeledAirports = <<>>
  /\ intermediateStopLabels = <<>>
  /\ showIntermediateStops \in BOOLEAN
  /\ zoomendListeners = <<[fn |-> "trackWidth", upload |-> 0, replaced |-> 0]>>
  /\ labelRepositioningHandler = NoHandler
  /\ markerVisibilityHandlerSetup = FALSE
  /\ lastDispatch = <<>>

MapFrame == <<airports, finderVars, thresholdVars, simplifyVars, detectorVars,
              classifyVars, existingLabels, placements, pending,
              airportsLoading, catalogState, files, rendered>>

\* lines 75-116 of the upload handler: the previous repositioning handler is
\* removed, the marker handler is set up once, a new repositioning handler
\* is made and added, in upload number n
SetupHandlers(n) ==
  /\ labelRepositioningHandler' =
       [fn |-> "labelRepositioning", upload |-> n,
        replaced |-> labelRepositioningHandler.upload]
  /\ zoomendListeners' =
       Append(WithMarkerVisibility(RemoveListener(zoomendListeners,
                                                  labelRepositioningHandler)),
              labelRepositioningHandler')
  /\ markerVisibilityHandlerSetup' = TRUE

\* the change event on a catalog not marked loaded: resetMap, then the
\* handler waits for loadAirportsData()
MapChangeAwaitingCatalog ==
  /\ hpc = "idle"
  /\ ~inputDisabled
  /\ uploads < MaxUploads
  /\ ~airportsLoaded
  /\ uploads' = uploads + 1
  /\ inputDisabled' = TRUE
  /\ labeledAirports' = <<>>
  /\ intermediateStopLabels' = <<>>
  /\ hpc' = "awaitLoad"
  /\ UNCHANGED <<MapFrame, airportsLoaded, zoom, showIntermediateStops,
                 zoomendListeners, labelRepositioningHandler,
                 markerVisibilityHandlerSetup, lastDispatch>>

\* the change event on a catalog marked loaded: resetMap and the handlers,
\* then the handler waits for the parses
MapChangeParsing ==
  /\ hpc = "idle"
  /\ ~inputDisabled
  /\ uploads < MaxUploads
  /\ airportsLoaded
  /\ uploads' = uploads + 1
  /\ inputDisabled' = TRUE
  /\ labeledAirports' = <<>>
  /\ intermediateStopLabels' = <<>>
  /\ SetupHandlers(uploads + 1)
  /\ hpc' = "parsing"
  /\ UNCHANGED <<MapFrame, airportsLoaded, zoom, showIntermediateStops,
                 lastDispatch>>

\* await loadAirportsData() returns: the handlers, then the handler waits
\* for the parses
MapCatalogAwaited ==
  /\ hpc = "awaitLoad"
  /\ airportsLoaded' = TRUE
  /\ SetupHandlers(uploads)
  /\ hpc' = "parsing"
  /\ UNCHANGED <<MapFrame, uploads, inputDisabled, zoom, labeledAirports,
                 intermediateStopLabels, showIntermediateStops, lastDispatch>>

\* await loadAirportsData() throws: the handler returns at line 68; the
\* loader has marked the catalog loaded or not
MapCatalogLoadFailed ==
  /\ hpc = "awaitLoad"
  /\ airportsLoaded' \in BOOLEAN
  /\ inputDisabled' = FALSE
  /\ hpc' = "idle"
  /\ UNCHANGED <<MapFrame, uploads, zoom, mapVars>>

\* Promise.all resolves: every valid flight is rendered, the timer is set
MapRenderFlights ==
  /\ hpc = "parsing"
  /\ \E n \in 0..MaxFlights : \E flights \in [1..n -> MapFlights] :
     \E fallbackAngle \in FallbackAngles :
        LET m == RenderOnMap([labeledAirports |-> labeledAirports,
                              intermediateStopLabels |-> intermediateStopLabels],
                             flights, showIntermediateStops, zoom, fallbackAngle)
        IN  /\ labeledAirports' = m.labeledAirports
            /\ intermediateStopLabels' = m.intermediateStopLabels
  /\ hpc' = "timer"
  /\ UNCHANGED <<MapFrame, airportsLoaded, uploads, inputDisabled, zoom,
                 showIntermediateStops, zoomendListeners,
                 labelRepositioningHandler, markerVisibilityHandlerSetup,
                 lastDispatch>>

\* the change event of the checkbox: every stop label and connector is
\* added to the map or removed from it
ToggleIntermediateStops ==
  /\ hpc # "off"
  /\ showIntermediateStops' = ~showIntermediateStops
  /\ intermediateStopLabels' =
       [k \in 1..Len(intermediateStopLabels) |->
          [intermediateStopLabels[k] EXCEPT
             !.onMap = showIntermediateStops',
             !.connectorOnMap =
                intermediateStopLabels[k].connector /\ showIntermediateStops']]
  /\ UNCHANGED <<MapFrame, airportsLoaded, hpc, uploads, inputDisabled, zoom,
                 labeledAirports, zoomendListeners, labelRepositioningHandler,
                 markerVisibilityHandlerSetup, lastDispatch>>

\* the map's zoom has changed: every listener of zoomend is called
ZoomEnd ==
  /\ hpc # "off"
  /\ zoom' \in ZoomLevels \ {zoom}
  /\ \E fallbackAngle \in FallbackAngles :
        LET m == Dispatch([labeledAirports |-> labeledAirports,
                           intermediateStopLabels |-> intermediateStopLabels],
                          zoomendListeners, showIntermediateStops, zoom',
                          fallbackAngle)
        IN  /\ labeledAirports' = m.labeledAirports
            /\ intermediateStopLabels' = m.intermediateStopLabels
  /\ lastDispatch' = zoomendListeners
  /\ UNCHANGED <<MapFrame, airportsLoaded, hpc, uploads, inputDisabled,
                 showIntermediateStops, zoomendListeners,
                 labelRepositioningHandler, markerVisibilityHandlerSetup>>

NextMap ==
  \/ MapChangeAwaitingCatalog
  \/ MapChangeParsing
  \/ MapCatalogAwaited
  \/ MapCatalogLoadFailed
  \/ MapRenderFlights
  \/ TimerFires
  \/ ToggleIntermediateStops
  \/ ZoomEnd

SpecMap == InitMap /\ [][NextMap]_vars

\* C23: no airport code is a key of labeledAirports and of
\* intermediateStopLabels at once, whatever flights an upload has rendered
C23_Claim ==
  \A j \in 1..Len(labeledAirports) :
     ~HasKey(intermediateStopLabels, labeledAirports[j].code)

\* the listeners among listeners that are label-repositioning handlers
Repositioning(listeners) ==
  { k \in 1..Len(listeners) : listeners[k].fn = "labelRepositioning" }

\* C27: at most one label-repositioning handler is registered for zoomend,
\* the one the last upload made, so a zoom change runs at most one and every
\* label is created again once; the listeners of the other components (the
\* track width and, once set up, the marker visibility) stay registered
C27_OneRepositioningHandler ==
  /\ Cardinality(Repositioning(zoomendListeners)) <= 1
  /\ \A k \in Repositioning(zoomendListeners) :
        zoomendListeners[k] = labelRepositioningHandler
  /\ labelRepositioningHandler # NoHandler =>
        Repositioning(zoomendListeners) # {}
  /\ Cardinality(Repositioning(lastDispatch)) <= 1
  /\ \A k \in 1..Len(labeledAirports) :
        labeledAirports[k].caller = "zoomend" =>
           Cardinality(Repositioning(lastDispatch)) = 1
  /\ Cardinality({ k \in 1..Len(zoomendListeners) :
                     zoomendListeners[k].fn = "trackWidth" }) = 1
  /\ Cardinality({ k \in 1..Len(zoomendListeners) :
                     zoomendListeners[k].fn = "markerVisibility" })
       = IF markerVisibilityHandlerSetup THEN 1 ELSE 0

\* the second upload has replaced the handler of the first by its own, and
\* a zoom change has run it after the listeners of the other components
C27_Witness ==
  /\ labelRepositioningHandler =
       [fn |-> "labelRepositioning", upload |-> 2, replaced |-> 1]
  /\ lastDispatch = <<[fn |-> "trackWidth", upload |-> 0, replaced |-> 0],
                      [fn |-> "markerVisibility", upload |-> 0, replaced |-> 0],
                      labelRepositioningHandler>>
  /\ Len(labeledAirports) = 2
  /\ \A k \in 1..Len(labeledAirports) : labeledAirports[k].caller = "zoomend"

\* C28: every label of intermediateStopLabels, and its connector if it has
\* one, is on the map if and only if the checkbox is checked
C28_StopLabelsFollowCheckbox ==
  \A k \in 1..Len(intermediateStopLabels) :
     /\ intermediateStopLabels[k].onMap = showIntermediateStops
     /\ intermediateStopLabels[k].connectorOnMap =
          (intermediateStopLabels[k].connector /\ showIntermediateStops)

\* with the checkbox unchecked a zoom change has created the label of a
\* stop again, off the map, and the label of another airport, on the map
C28_Witness ==
  /\ ~showIntermediateStops
  /\ Len(intermediateStopLabels) = 1
  /\ Len(labeledAirports) = 1
  /\ labeledAirports[1].code # intermediateStopLabels[1].code
  /\ labeledAirports[1].onMap
  /\ \A k \in 1..Len(intermediateStopLabels) :
        /\ intermediateStopLabels[k].caller = "zoomend"
        /\ intermediateStopLabels[k].connector
        /\ ~intermediateStopLabels[k].onMap
====
